---- MODULE Spec2Model ----
(***************************************************************************)
(* Paper-trader order execution engine (OrderService.SubmitAndExecute)     *)
(* over its PostgreSQL tables and the Redis last-price cache.              *)
(*                                                                         *)
(* Numbers are integers.  A quantity counts fractions of a share, QtyUnit  *)
(* to the share.  Money is counted in integers of which MoneyUnit make one *)
(* unit of a NUMERIC(19,4) column (0.0001): prices and quantities are      *)
(* values their columns can hold, but the cost price * quantity and the    *)
(* new balance the Go code computes may lie between two column values, and *)
(* every value written to a column is rounded to it.                       *)
(***************************************************************************)
EXTENDS Integers, Sequences, FiniteSets, TLC

\* ------------------------------------------------------------------ bounds
MaxCalls == 2
MaxQty == 2
InitCash == 5
\* Messages read from the connections, ticks published, and the capacity of a
\* client's send channel (256 in ServeWS).
MaxMsgs == 2
MaxTicks == 2
SendCap == 1
\* Calls of PriceRepo.Publish and of PriceRepo.GetLastPrice, and the time the
\* clock of the price store may reach, in seconds.
MaxPubs == 3
MaxReads == 2
MaxTime == 120
\* The capacity of the command channels of the hub (64 in NewHub).
HubCap == 1
\* Connection attempts of AlpacaClient.Run, and the messages one attempt reads
\* in its read loop.
MaxAttempts == 9
MaxFrames == 2
MaxScaleCalls == 2
MaxCacheReads == 1
MaxHours == 1

\* A request's quantity (a float64) counts 1/QtyUnit shares, and an integer m
\* of money is m / MoneyUnit units of a NUMERIC(19,4) column, so that the
\* product of a price and a quantity is a whole number.
QtyUnit == 2
MoneyUnit == QtyUnit

Calls == 1..MaxCalls
Portfolios == {"p1", "p2"}
Symbols == {"AAPL"}
\* The prices of the ticks: values the column fill_price can hold.
Prices == {MoneyUnit * k : k \in {-1, 2, 5}}
\* cash_balance of every portfolio before the first order.
OpeningBalance == MoneyUnit * InitCash

\* ------------------------------------------------------------ domain types
SideBuy == "buy"
SideSell == "sell"
TypeMarket == "market"
TypeLimit == "limit"
TypeStop == "stop"
TypeStopLimit == "stop_limit"
StatusPending == "pending"
StatusFilled == "filled"
StatusPartiallyFilled == "partially_filled"
StatusCancelled == "cancelled"
StatusRejected == "rejected"
EntryTradeBuy == "trade_buy"
EntryTradeSell == "trade_sell"

\* A nil pointer, an SQL NULL or a missing Redis key is the empty sequence;
\* a value v behind a pointer or in a nullable column is <<v>>.
None == <<>>
Some(v) == <<v>>

\* uuid.Nil; the ids uuid.New() hands out are the numbers of the calls.
NilID == 0

\* The domain.Order a caller (Handlers.CreateOrder) passes to SubmitAndExecute.
Order(pid, sym, side, typ, qty) ==
    [ID |-> NilID, PortfolioID |-> pid, Symbol |-> sym, Side |-> side,
     OrderType |-> typ, Quantity |-> qty, FillPrice |-> None, FilledQty |-> 0,
     Status |-> "", RejectReason |-> None]

\* Requests the callers submit: every well-formed market order, the order
\* "p1 buys 1 AAPL" with each other order type, and with one field malformed.
ValidRequests ==
    { Order(pid, sym, side, TypeMarket, qty) :
        pid \in Portfolios, sym \in Symbols, side \in {SideBuy, SideSell},
        qty \in 1..MaxQty }

OtherTypeRequests ==
    { Order("p1", "AAPL", SideBuy, typ, 1) : typ \in {TypeLimit, TypeStop, TypeStopLimit} }

MalformedRequests ==
    { Order("p1", "AAPL", SideBuy, TypeMarket, 0),
      Order("p1", "AAPL", SideBuy, TypeMarket, -1),
      Order("p1", "", SideBuy, TypeMarket, 1),
      Order("p1", "AAPL", "hold", TypeMarket, 1),
      Order("p1", "AAPL", SideBuy, "iceberg", 1) }

Requests == ValidRequests \cup OtherTypeRequests \cup MalformedRequests

\* The validation with the quantity test < 0 for <= 0.
validateQuantityBelowZero(r) ==
    IF r.Quantity < 0 THEN "quantity must be greater than zero"
    ELSE IF r.Symbol = "" THEN "symbol is required"
    ELSE IF r.Side \notin {SideBuy, SideSell} THEN "invalid order side"
    ELSE IF r.OrderType \notin {TypeMarket, TypeLimit, TypeStop, TypeStopLimit}
         THEN "invalid order type"
    ELSE ""

\* validateOrderRequest: the error message, or "" when the request is valid.
validateOrderRequest(r) ==
    IF r.Quantity <= 0 THEN "quantity must be greater than zero"
    ELSE IF r.Symbol = "" THEN "symbol is required"
    ELSE IF r.Side \notin {SideBuy, SideSell} THEN "invalid order side"
    ELSE IF r.OrderType \notin {TypeMarket, TypeLimit, TypeStop, TypeStopLimit}
         THEN "invalid order type"
    ELSE ""

\* ------------------------------------------------------------ SQL helpers
\* n / d rounded to the nearest integer, halves away from zero.  d > 0.
RoundDiv(n, d) ==
    IF n >= 0 THEN (2 * n + d) \div (2 * d) ELSE 0 - ((2 * (0 - n) + d) \div (2 * d))

\* The value n / d written to a NUMERIC(19,4) column: PostgreSQL rounds it to
\* the scale of the column, halves away from zero.
Numeric(n, d) == MoneyUnit * RoundDiv(n, d * MoneyUnit)

\* Table portfolios without its CHECK constraint.
PortfolioUnchecked(cash) == TRUE

\* CHECK (cash_balance >= 0) of table portfolios.
PortfolioCheck(cash) == cash >= 0

\* CHECK (quantity > 0) of table positions.
PositionCheck(qty) == qty > 0

\* CHECK (quantity > 0) of table orders.
OrderCheck(qty) == qty > 0

\* A table is a function from primary key to row.  A transaction keeps its
\* uncommitted writes per table: rows put, and position keys deleted.
EmptyTx == [open |-> FALSE, portfolios |-> <<>>, positions |-> <<>>,
            deleted |-> {}, orders |-> <<>>, ledger |-> <<>>]

\* A table on which a DELETE has no effect.
WrittenIgnoresDeletes(base, put, del) ==
    [k \in DOMAIN base \cup DOMAIN put |->
        IF k \in DOMAIN put THEN put[k] ELSE base[k]]

\* The table base with the rows of put written and the keys of del deleted.
Written(base, put, del) ==
    [k \in (DOMAIN base \cup DOMAIN put) \ del |->
        IF k \in DOMAIN put THEN put[k] ELSE base[k]]

\* One more row in a set of written rows.
Put(w, k, v) ==
    [x \in DOMAIN w \cup {k} |-> IF x = k THEN v ELSE w[x]]

\* A set of written rows without the row of key k.
Drop(w, k) == [x \in DOMAIN w \ {k} |-> w[x]]

\* The committed tables d after transaction t has committed.
Applied(d, t) ==
    [portfolios |-> Written(d.portfolios, t.portfolios, {}),
     positions  |-> Written(d.positions, t.positions, t.deleted),
     orders     |-> Written(d.orders, t.orders, {}),
     ledger     |-> Written(d.ledger, t.ledger, {})]

\* tx.Commit(): the transaction's writes become the committed tables.
Commit(d, t) == Applied(d, t)

\* A return path that commits what the transaction has written so far.
RollbackKeepsWrites(d, t) == Applied(d, t)

\* tx.Rollback() (deferred; runs on every return that is not a commit):
\* the transaction's writes are discarded.
Rollback(d, t) == d

\* ------------------------------------------------------------------ state
VARIABLES
    pc,         \* per call: where SubmitAndExecute stands
    req,        \* per call: the domain.Order `req` of SubmitAndExecute
    loc,        \* per call: fillPrice, cost, portfolio.CashBalance, newBalance, newQty
    err,        \* per call: the error returned ("" = nil)
    io,         \* per call: the stores the call has touched so far
    tx,         \* per call: the uncommitted writes of its transaction
    db,         \* the committed tables portfolios, positions, orders, ledger
    rowLock,    \* per portfolio row: the calls holding its FOR UPDATE lock
    lastPrice,  \* Redis: last_price:{symbol}, None when missing or expired
    ledgerSeq   \* the BIGSERIAL sequence of ledger.id

vars == <<pc, req, loc, err, io, tx, db, rowLock, lastPrice, ledgerSeq>>

\* The fan-out hub (gateway.Hub), its clients and its bridging tasks.
VARIABLES
    clients,      \* Hub.clients: the registered clients
    subs,         \* Hub.subs: symbol -> its subscriber set, for the symbols that have one
    redisCancels, \* Hub.redisCancels: symbol -> the bridge its cancel function cancels
    register,     \* the channels of the hub, oldest command first
    unregister,
    subscribe,
    unsubscribe,
    hubDone,      \* the context of Hub.Run is cancelled and Run has returned
    send,         \* per client: Client.send, its buffered outbound channel
    closed,       \* the clients whose send channel is closed
    conn,         \* per client: its connection, "none", "open" or "closed"
    pumps,        \* the running pumpRedis goroutines, by number
    started,      \* how many pumpRedis goroutines have been started
    published,    \* how many ticks have been published to prices.{symbol}
    panicked,     \* the process has died of a panic or a fatal runtime error
    sent,         \* history, per client: the commands submitted to the hub, in order
    owed          \* history: <<client, tick>> for every tick published while the
                  \*   client was in the subscriber set of its symbol, until the
                  \*   pair is settled: the tick is put on the client's channel or
                  \*   dropped because the channel is full, or the client leaves the set

hubVars == <<clients, subs, redisCancels, register, unregister, subscribe, unsubscribe,
             hubDone, send, closed, conn, pumps, started, published, panicked,
             sent, owed>>

\* The price store (redis.PriceRepo over one Redis server) in time.
VARIABLES
    now,        \* the time, in seconds
    cacheKV,    \* Redis: last_price:{symbol} -> None or [data, expireAt]
    broadcast,  \* Redis: prices.{symbol} -> the payloads PUBLISHed, oldest first
    pub,        \* the call of Publish under way: pc, the payload, its error
    pubs,       \* how many calls of Publish have been made
    got,        \* the latest return of GetLastPrice: n, symbol, tick, err
    lastSet,    \* history: symbol -> None or [tick, at] of the latest SET applied
    before      \* history: broadcast and lastSet as the call under way found them

storeVars == <<now, cacheKV, broadcast, pub, pubs, got, lastSet, before>>

\* The market-data ingestion client (ingestion.AlpacaClient).
VARIABLES
    runPc,       \* where Run and the connect it calls stand
    backoff,     \* Run: backoff, in seconds
    ctxDone,     \* the context of Run is cancelled
    attempts,    \* how many calls of connect Run has made
    frames,      \* how many messages the read loop of this connect has read
    steps,       \* history: what this connect has done on the connection, in order
    session,     \* history: this connect has entered its read loop
    lastOutcome, \* history: how the latest connect ended
    waited,      \* history: the delays Run has waited, while every connect so far has failed before its read loop
    pure,        \* history: every connect so far has failed before its read loop
    prevDelay,   \* history: the delay Run waited last, 0 after a connect that returned nil
    rested       \* history: Run has waited since the latest connect returned

feedVars == <<runPc, backoff, ctxDone, attempts, frames, steps, session, lastOutcome,
              waited, pure, prevDelay, rested>>

\* The two pumps of every client connection (gateway.Client), step by step.
VARIABLES
    readPc,     \* per client: where readPump stands, and the command it holds
    writePc     \* per client: where writePump stands

connVars == <<readPc, writePc>>

\* The grading scales of the browser extension: chrome.storage.local under
\* the key customGradingScales, and GradingScaleDetector.getGradingScale.
VARIABLES
    customGradingScales, \* course -> None or the entry {scale, userNotes} stored
    scaleCall,           \* the call of getGradingScale under way
    scaleResult,         \* the latest end of getGradingScale: n, course, options, result
    storedAtRead,        \* history: the entry stored for the course when the latest call read storage
    activeGradingStandard \* Canvas: course -> what getActiveGradingStandard answers for it

scaleVars ==
    <<customGradingScales, scaleCall, scaleResult, storedAtRead, activeGradingStandard>>

\* The course cache of the browser extension: chrome.storage.local under the
\* key cache, written by the popup (Storage) and by the background worker.
VARIABLES
    dateNow,     \* Date.now(), in milliseconds
    cache,       \* the value stored under the key cache
    setCall,     \* the call of Storage.setCachedCourses under way
    groupsCall,  \* the call of getAssignmentGroups under way in the background worker
    served,      \* the latest return of Storage.getCachedCourses: n, courses
    stored,      \* history: None or [courses, at] of the latest store by setCachedCourses
    cleared      \* history: clearCache has run since that store

cacheVars == <<dateNow, cache, setCall, groupsCall, served, stored, cleared>>

extVars == <<scaleVars, cacheVars>>

\* Everything but the order engine and the hub.
otherVars == <<storeVars, feedVars, connVars, extVars>>

\* The connections ServeWS serves, and the symbols their messages name.
Clients == {"a", "b"}
Streams == {"AAPL", "MSFT"}

\* NewHub: empty maps and empty channels; nothing runs, nothing is published.
NewHub ==
    /\ clients = {}
    /\ subs = <<>>
    /\ redisCancels = <<>>
    /\ register = <<>>
    /\ unregister = <<>>
    /\ subscribe = <<>>
    /\ unsubscribe = <<>>
    /\ hubDone = FALSE
    /\ send = [c \in Clients |-> <<>>]
    /\ closed = {}
    /\ conn = [c \in Clients |-> "none"]
    /\ pumps = <<>>
    /\ started = 0
    /\ published = 0
    /\ panicked = FALSE
    /\ sent = [c \in Clients |-> <<>>]
    /\ owed = {}

\* NewPriceRepo over an empty Redis: no key, nothing broadcast, no call made.
NewPriceRepo ==
    /\ now = 0
    /\ cacheKV = [sym \in Symbols |-> <<>>]
    /\ broadcast = [sym \in Symbols |-> <<>>]
    /\ pub = [pc |-> "idle", symbol |-> "", data |-> <<>>, err |-> ""]
    /\ pubs = 0
    /\ got = [n |-> 0, symbol |-> "", tick |-> <<>>, err |-> ""]
    /\ lastSet = [sym \in Symbols |-> <<>>]
    /\ before = [broadcast |-> [sym \in Symbols |-> <<>>],
                 lastSet |-> [sym \in Symbols |-> <<>>]]

\* Where readPump stands: not started, at conn.ReadMessage ("read"), at the
\* send of a command to the hub ("forward"), in its deferred function
\* ("defer"), or returned ("exited").
ReadAt(at, action, sym) == [at |-> at, action |-> action, symbol |-> sym]

\* No connection is served yet: no pump runs.
NoPumps ==
    /\ readPc = [c \in Clients |-> ReadAt("none", "", "")]
    /\ writePc = [c \in Clients |-> "none"]

\* Run is called: backoff := time.Second, nothing has been tried yet.
NewAlpacaClient ==
    /\ runPc = "select"
    /\ backoff = 1
    /\ ctxDone = FALSE
    /\ attempts = 0
    /\ frames = 0
    /\ steps = <<>>
    /\ session = FALSE
    /\ lastOutcome = ""
    /\ waited = <<>>
    /\ pure = TRUE
    /\ prevDelay = 0
    /\ rested = FALSE

\* The courses of the extension's user, by Canvas course id.
CourseIds == {"101", "202"}

\* The options getGradingScale is called with. Every call in the extension
\* passes storage (popup.js passes {canvasApi: CanvasAPI, storage: Storage});
\* canvasApi and forceRefresh are left free.
ScaleOptions == [canvasApi : BOOLEAN, storage : {TRUE}, forceRefresh : BOOLEAN]
NoOptions == [canvasApi |-> FALSE, storage |-> FALSE, forceRefresh |-> FALSE]

\* What getGradingScale returns: {scale, source, confidence, userNotes}
\* (lastUpdated and the Canvas standard's id and title are left out).
ScaleInfo(scale, source, confidence, notes) ==
    [scale |-> scale, source |-> source, confidence |-> confidence, userNotes |-> notes]
NoScaleInfo == ScaleInfo("", "", 0, "")

\* A call of getGradingScale: idle, or waiting for the Canvas API ("canvas").
ScaleAt(at, courseId, options) == [at |-> at, courseId |-> courseId, options |-> options]

\* How a call of getGradingScale ended: returned a result, or rejected.
ScaleEnd(n, courseId, options, returned, result) ==
    [n |-> n, courseId |-> courseId, options |-> options, returned |-> returned,
     result |-> result]

\* The extension is installed: nothing is stored, no call has been made.
NoGradingScales ==
    /\ customGradingScales = [c \in CourseIds |-> None]
    /\ scaleCall = ScaleAt("idle", "", NoOptions)
    /\ scaleResult = ScaleEnd(0, "", NoOptions, FALSE, NoScaleInfo)
    /\ storedAtRead = None
    /\ activeGradingStandard = [c \in CourseIds |-> None]

\* The course lists the Canvas API answers with, as lists of course ids.
CourseLists == {<<"101">>, <<"101", "202">>}

\* The value under the key cache: the encrypted course list and the plain one
\* (None for null or missing), the time the courses were stored (0 for null
\* or missing), and per course the time its assignment groups were stored
\* (cache.assignmentGroups_{id} with cache.gradesTimestamp, 0 when missing).
CacheValue(encrypted, courses, timestamp, groups) ==
    [coursesEncrypted |-> encrypted, courses |-> courses,
     coursesTimestamp |-> timestamp, groupsTimestamp |-> groups]
NoGroups == [c \in CourseIds |-> 0]
NoCache == CacheValue(None, None, 0, NoGroups)

\* A call that has read the key cache and has not written it yet.
CacheAt(at, arg, read) == [at |-> at, arg |-> arg, cache |-> read]

\* The extension is installed: the key cache is missing, no call is under way.
NewStorage ==
    /\ dateNow = 1
    /\ cache = NoCache
    /\ setCall = CacheAt("idle", <<>>, NoCache)
    /\ groupsCall = CacheAt("idle", "", NoCache)
    /\ served = [n |-> 0, courses |-> None]
    /\ stored = None
    /\ cleared = FALSE

\* No request: the call has not arrived, or it returned `nil, err`.
NoOrder == Order("", "", "", "", 0)

NoLocals == [fillPrice |-> 0, cost |-> 0, cashBalance |-> 0, newBalance |-> 0, newQty |-> 0]

Init ==
    /\ pc = [c \in Calls |-> "idle"]
    /\ req = [c \in Calls |-> NoOrder]
    /\ loc = [c \in Calls |-> NoLocals]
    /\ err = [c \in Calls |-> ""]
    /\ io = [c \in Calls |-> {}]
    /\ tx = [c \in Calls |-> EmptyTx]
    /\ db = [portfolios |-> [p \in Portfolios |-> [cash_balance |-> OpeningBalance]],
             positions  |-> <<>>,
             orders     |-> <<>>,
             ledger     |-> <<>>]
    /\ rowLock = [p \in Portfolios |-> {}]
    /\ lastPrice = [s \in Symbols |-> None]
    /\ ledgerSeq = 0
    /\ NewHub
    /\ NewPriceRepo
    /\ NewAlpacaClient
    /\ NoPumps
    /\ NoGradingScales
    /\ NewStorage

\* ---------------------------------------------------------- price store
\* PriceRepo.Publish: SET last_price:{symbol} with a 60 s expiry.
Publish(sym, price) ==
    /\ lastPrice[sym] # Some(price)
    /\ lastPrice' = [lastPrice EXCEPT ![sym] = Some(price)]
    /\ UNCHANGED <<pc, req, loc, err, io, tx, db, rowLock, ledgerSeq>>
    /\ UNCHANGED hubVars
    /\ UNCHANGED otherVars

\* Redis drops last_price:{symbol} when its expiry has passed.
Expire(sym) ==
    /\ lastPrice[sym] # None
    /\ lastPrice' = [lastPrice EXCEPT ![sym] = None]
    /\ UNCHANGED <<pc, req, loc, err, io, tx, db, rowLock, ledgerSeq>>
    /\ UNCHANGED hubVars
    /\ UNCHANGED otherVars

\* ------------------------------------------------------ SubmitAndExecute
\* `return nil, err` before the transaction exists: no order is returned and
\* the locals are gone.
ReturnError(c, msg) ==
    /\ pc' = [pc EXCEPT ![c] = "failed"]
    /\ err' = [err EXCEPT ![c] = msg]
    /\ req' = [req EXCEPT ![c] = NoOrder]
    /\ loc' = [loc EXCEPT ![c] = NoLocals]

\* `return nil, err` inside the transaction: the deferred tx.Rollback() runs,
\* which also gives up the row locks the transaction holds.
ReturnErrorTx(c, msg) ==
    /\ ReturnError(c, msg)
    /\ db' = Rollback(db, tx[c])
    /\ tx' = [tx EXCEPT ![c] = EmptyTx]
    /\ rowLock' = [p \in Portfolios |-> rowLock[p] \ {c}]

\* Entry and validateOrderRequest; calls are numbered in the order they arrive.
Validate(c) ==
    /\ pc[c] = "idle"
    /\ \A b \in Calls : b < c => pc[b] # "idle"
    /\ \E r \in Requests :
        IF validateOrderRequest(r) # ""
        THEN ReturnError(c, validateOrderRequest(r))
        ELSE /\ req' = [req EXCEPT ![c] = r]
             /\ pc' = [pc EXCEPT ![c] = "price"]
             /\ UNCHANGED <<loc, err>>
    /\ UNCHANGED <<io, tx, db, rowLock, lastPrice, ledgerSeq>>
    /\ UNCHANGED hubVars
    /\ UNCHANGED otherVars

\* fillPrice * req.Quantity
Cost(fillPrice, quantity) == (fillPrice * quantity) \div QtyUnit

\* A lookup that answers a missing key with the zero-valued tick.
LastPriceTickZero(cached) == IF cached = None THEN Some(0) ELSE cached

\* PriceRepo.GetLastPrice when Redis answers: the cached value of the key
\* (None for redis.Nil) becomes the tick returned (nil for redis.Nil).
LastPriceTick(cached) == cached

\* s.priceRepo.GetLastPrice (which may fail in transport), then fillPrice,
\* cost and req.Status = pending.
GetLastPrice(c) ==
    LET tick == LastPriceTick(lastPrice[req[c].Symbol]) IN
    /\ pc[c] = "price"
    /\ io' = [io EXCEPT ![c] = @ \cup {"redis"}]
    /\ \/ ReturnError(c, "price lookup failed")
       \/ /\ tick = None
          /\ ReturnError(c, "no price data available for symbol")
       \/ /\ tick # None
          /\ loc' = [loc EXCEPT ![c].fillPrice = tick[1],
                                ![c].cost = Cost(tick[1], req[c].Quantity)]
          /\ req' = [req EXCEPT ![c].Status = StatusPending]
          /\ pc' = [pc EXCEPT ![c] = "begin"]
          /\ err' = err
    /\ UNCHANGED <<tx, db, rowLock, lastPrice, ledgerSeq>>
    /\ UNCHANGED hubVars
    /\ UNCHANGED otherVars

\* s.db.BeginTxx
BeginTxx(c) ==
    /\ pc[c] = "begin"
    /\ io' = [io EXCEPT ![c] = @ \cup {"postgres"}]
    /\ \/ /\ ReturnError(c, "begin transaction")
          /\ tx' = tx
       \/ /\ tx' = [tx EXCEPT ![c].open = TRUE]
          /\ pc' = [pc EXCEPT ![c] = "lock"]
          /\ UNCHANGED <<req, loc, err>>
    /\ UNCHANGED <<db, rowLock, lastPrice, ledgerSeq>>
    /\ UNCHANGED hubVars
    /\ UNCHANGED otherVars

\* A plain SELECT (FOR UPDATE left out) waits for nobody.
SelectNeverBlocked(holders, c) == FALSE

\* SELECT ... FOR UPDATE waits while another transaction holds the row lock.
ForUpdateBlocked(holders, c) == holders \ {c} # {}

\* The funds check with <= for <.
InsufficientFundsOrEqual(cashBalance, cost) == cashBalance <= cost

\* portfolio.CashBalance < cost
InsufficientFunds(cashBalance, cost) == cashBalance < cost

\* s.portfolioRepo.GetByIDForUpdateTx, then for a buy the funds check.
GetByIDForUpdateTx(c) ==
    LET pid == req[c].PortfolioID
        cash == db.portfolios[pid].cash_balance IN
    /\ pc[c] = "lock"
    /\ \/ ReturnErrorTx(c, "get portfolio")
       \/ /\ ~ForUpdateBlocked(rowLock[pid], c)
          /\ rowLock' = [rowLock EXCEPT ![pid] = @ \cup {c}]
          /\ loc' = [loc EXCEPT ![c].cashBalance = cash]
          /\ IF req[c].Side = SideBuy
             THEN IF InsufficientFunds(cash, loc[c].cost)
                  THEN /\ req' = [req EXCEPT ![c].Status = StatusRejected,
                                            ![c].RejectReason = Some("insufficient funds")]
                       /\ pc' = [pc EXCEPT ![c] = "createRejected"]
                  ELSE /\ req' = req
                       /\ pc' = [pc EXCEPT ![c] = "create"]
             ELSE /\ req' = req
                  /\ pc' = [pc EXCEPT ![c] = "getPosition"]
          /\ UNCHANGED <<err, tx, db>>
    /\ UNCHANGED <<io, lastPrice, ledgerSeq>>
    /\ UNCHANGED hubVars
    /\ UNCHANGED otherVars

\* The tables as transaction c sees them: committed rows and its own writes.
PositionsTx(c) == Written(db.positions, tx[c].positions, tx[c].deleted)
OrdersTx(c) == Written(db.orders, tx[c].orders, {})

\* s.positionRepo.GetBySymbolTx: the position row, or None (sql.ErrNoRows).
GetBySymbolTx(c, pid, sym) ==
    IF <<pid, sym>> \in DOMAIN PositionsTx(c)
    THEN Some(PositionsTx(c)[<<pid, sym>>]) ELSE None

\* pos == nil || pos.Quantity < req.Quantity
InsufficientPosition(pos, quantity) ==
    \/ pos = None
    \/ pos[1].quantity < quantity

\* The sell branch before the order is created: read the position, check it.
GetPosition(c) ==
    LET pos == GetBySymbolTx(c, req[c].PortfolioID, req[c].Symbol) IN
    /\ pc[c] = "getPosition"
    /\ \/ ReturnErrorTx(c, "get position")
       \/ /\ IF InsufficientPosition(pos, req[c].Quantity)
             THEN /\ req' = [req EXCEPT ![c].Status = StatusRejected,
                                       ![c].RejectReason = Some("insufficient position")]
                  /\ pc' = [pc EXCEPT ![c] = "createRejected"]
             ELSE /\ req' = req
                  /\ pc' = [pc EXCEPT ![c] = "create"]
          /\ UNCHANGED <<loc, err, tx, db, rowLock>>
    /\ UNCHANGED <<io, lastPrice, ledgerSeq>>
    /\ UNCHANGED hubVars
    /\ UNCHANGED otherVars

\* The row OrderRepo.CreateTx inserts for order o: the INSERT names the
\* columns id, portfolio_id, symbol, side, order_type, quantity, limit_price
\* and status; the others take their defaults.
CreateTxRow(o) ==
    [id |-> o.ID, portfolio_id |-> o.PortfolioID, symbol |-> o.Symbol,
     side |-> o.Side, order_type |-> o.OrderType, quantity |-> o.Quantity,
     status |-> o.Status, fill_price |-> None, filled_qty |-> 0,
     reject_reason |-> None]

\* OrderRepo.CreateTx as a step of call c, going to pc `next` when it succeeds:
\* o.ID = uuid.New() when it is uuid.Nil, then the INSERT.
CreateOrder(c, next, msg) ==
    LET id == IF req[c].ID = NilID THEN c ELSE req[c].ID
        o  == [req[c] EXCEPT !.ID = id] IN
    /\ \/ ReturnErrorTx(c, msg)
       \/ /\ id \notin DOMAIN OrdersTx(c)
          /\ OrderCheck(o.Quantity)
          /\ req' = [req EXCEPT ![c] = o]
          /\ tx' = [tx EXCEPT ![c].orders = Put(@, id, CreateTxRow(o))]
          /\ pc' = [pc EXCEPT ![c] = next]
          /\ UNCHANGED <<loc, err, db, rowLock>>
    /\ UNCHANGED <<io, lastPrice, ledgerSeq>>

\* The rejected order is written (lines 75 and 92).
CreateRejected(c) ==
    /\ pc[c] = "createRejected"
    /\ CreateOrder(c, "commitRejected", "create rejected order")
    /\ UNCHANGED hubVars
    /\ UNCHANGED otherVars

\* tx.Commit() of a rejection, and `return &req, nil`.
CommitRejected(c) ==
    /\ pc[c] = "commitRejected"
    /\ \/ ReturnErrorTx(c, "commit rejected order")
       \/ /\ db' = Commit(db, tx[c])
          /\ tx' = [tx EXCEPT ![c] = EmptyTx]
          /\ rowLock' = [p \in Portfolios |-> rowLock[p] \ {c}]
          /\ pc' = [pc EXCEPT ![c] = "rejected"]
          /\ UNCHANGED <<req, loc, err>>
    /\ UNCHANGED <<io, lastPrice, ledgerSeq>>
    /\ UNCHANGED hubVars
    /\ UNCHANGED otherVars

\* The order to fill is written with status pending (line 102).
CreateTx(c) ==
    /\ pc[c] = "create"
    /\ CreateOrder(c, IF req[c].Side = SideBuy THEN "upsert" ELSE "getPositionForSell",
                   "create order")
    /\ UNCHANGED hubVars
    /\ UNCHANGED otherVars

\* An upsert whose conflict clause overwrites the row with the new values.
UpsertRowOverwrites(old, qty, price) == [quantity |-> qty, avg_cost |-> Numeric(price, 1)]

\* The row INSERT ... ON CONFLICT (portfolio_id, symbol) DO UPDATE leaves:
\* old is the existing row (None when there is none), EXCLUDED the row of
\* the VALUES, already at the scale of its columns.
UpsertRow(old, qty, price) ==
    LET excluded == [quantity |-> qty, avg_cost |-> Numeric(price, 1)] IN
    IF old = None
    THEN excluded
    ELSE [quantity |-> old[1].quantity + excluded.quantity,
          avg_cost |-> Numeric(old[1].quantity * old[1].avg_cost
                                 + excluded.quantity * excluded.avg_cost,
                               old[1].quantity + excluded.quantity)]

\* The balance debited whatever the side.
NewBalanceDebits(side, cashBalance, cost) == cashBalance - cost

\* newBalance: portfolio.CashBalance - cost for a buy, + cost for a sell.
NewBalance(side, cashBalance, cost) ==
    IF side = SideBuy THEN cashBalance - cost ELSE cashBalance + cost

\* Buy: newBalance = portfolio.CashBalance - cost, then PositionRepo.UpsertTx.
UpsertTx(c) ==
    LET key == <<req[c].PortfolioID, req[c].Symbol>>
        row == UpsertRow(GetBySymbolTx(c, key[1], key[2]), req[c].Quantity, loc[c].fillPrice) IN
    /\ pc[c] = "upsert"
    /\ \/ ReturnErrorTx(c, "upsert position")
       \/ /\ PositionCheck(row.quantity)
          /\ loc' = [loc EXCEPT ![c].newBalance = NewBalance(req[c].Side, loc[c].cashBalance, loc[c].cost)]
          /\ tx' = [tx EXCEPT ![c].positions = Put(@, key, row),
                              ![c].deleted = @ \ {key}]
          /\ pc' = [pc EXCEPT ![c] = "updateCash"]
          /\ UNCHANGED <<req, err, db, rowLock>>
    /\ UNCHANGED <<io, lastPrice, ledgerSeq>>
    /\ UNCHANGED hubVars
    /\ UNCHANGED otherVars

\* Sell: newBalance = portfolio.CashBalance + cost, the position is read again
\* and newQty = pos.Quantity - req.Quantity decides between delete and update.
\* pos is dereferenced unchecked: a missing row is a nil-pointer panic, which
\* unwinds through the deferred rollback.
GetPositionForSell(c) ==
    LET pos == GetBySymbolTx(c, req[c].PortfolioID, req[c].Symbol) IN
    /\ pc[c] = "getPositionForSell"
    /\ \/ ReturnErrorTx(c, "get position for sell")
       \/ /\ pos = None
          /\ ReturnErrorTx(c, "nil pointer dereference")
       \/ /\ pos # None
          /\ LET newQty == pos[1].quantity - req[c].Quantity IN
             /\ loc' = [loc EXCEPT ![c].newBalance = NewBalance(req[c].Side, loc[c].cashBalance, loc[c].cost),
                                   ![c].newQty = newQty]
             /\ pc' = [pc EXCEPT ![c] = IF newQty = 0 THEN "delete" ELSE "updateQty"]
          /\ UNCHANGED <<req, err, tx, db, rowLock>>
    /\ UNCHANGED <<io, lastPrice, ledgerSeq>>
    /\ UNCHANGED hubVars
    /\ UNCHANGED otherVars

\* PositionRepo.DeleteTx
DeleteTx(c) ==
    LET key == <<req[c].PortfolioID, req[c].Symbol>> IN
    /\ pc[c] = "delete"
    /\ \/ ReturnErrorTx(c, "delete position")
       \/ /\ tx' = [tx EXCEPT ![c].positions = Drop(@, key),
                              ![c].deleted = @ \cup {key}]
          /\ pc' = [pc EXCEPT ![c] = "updateCash"]
          /\ UNCHANGED <<req, loc, err, db, rowLock>>
    /\ UNCHANGED <<io, lastPrice, ledgerSeq>>
    /\ UNCHANGED hubVars
    /\ UNCHANGED otherVars

\* PositionRepo.UpdateQtyTx: UPDATE positions SET quantity = newQty; a missing
\* row is no error, a quantity the CHECK refuses is.
UpdateQtyTx(c) ==
    LET key == <<req[c].PortfolioID, req[c].Symbol>>
        rows == PositionsTx(c) IN
    /\ pc[c] = "updateQty"
    /\ \/ ReturnErrorTx(c, "update position qty")
       \/ /\ key \in DOMAIN rows => PositionCheck(loc[c].newQty)
          /\ tx' = IF key \in DOMAIN rows
                   THEN [tx EXCEPT ![c].positions =
                            Put(@, key, [rows[key] EXCEPT !.quantity = loc[c].newQty])]
                   ELSE tx
          /\ pc' = [pc EXCEPT ![c] = "updateCash"]
          /\ UNCHANGED <<req, loc, err, db, rowLock>>
    /\ UNCHANGED <<io, lastPrice, ledgerSeq>>
    /\ UNCHANGED hubVars
    /\ UNCHANGED otherVars

\* The UPDATE without its WHERE clause: every portfolio gets the balance.
UpdateCashBalanceEveryRow(w, id, cash) ==
    [p \in Portfolios |-> [cash_balance |-> cash]]

\* UPDATE portfolios SET cash_balance = $1 WHERE id = $2, on the written rows
\* w of a transaction.
UpdateCashBalanceRow(w, id, cash) == Put(w, id, [cash_balance |-> cash])

\* PortfolioRepo.UpdateCashBalanceTx: UPDATE portfolios SET cash_balance =
\* newBalance, rounded to the column and refused by CHECK (cash_balance >= 0).
UpdateCashBalanceTx(c) ==
    LET pid == req[c].PortfolioID
        cash == Numeric(loc[c].newBalance, 1) IN
    /\ pc[c] = "updateCash"
    /\ \/ ReturnErrorTx(c, "update cash balance")
       \/ /\ PortfolioCheck(cash)
          /\ tx' = [tx EXCEPT ![c].portfolios = UpdateCashBalanceRow(@, pid, cash)]
          /\ pc' = [pc EXCEPT ![c] = "updateStatus"]
          /\ UNCHANGED <<req, loc, err, db, rowLock>>
    /\ UNCHANGED <<io, lastPrice, ledgerSeq>>
    /\ UNCHANGED hubVars
    /\ UNCHANGED otherVars

\* The UPDATE without `status = $1`.
UpdateStatusRowKeepsStatus(row, status, fillPrice, filledQty) ==
    [row EXCEPT !.fill_price = Some(Numeric(fillPrice, 1)), !.filled_qty = filledQty]

\* UPDATE orders SET status = $1, fill_price = $2, filled_qty = $3 on one row.
UpdateStatusRow(row, status, fillPrice, filledQty) ==
    [row EXCEPT !.status = status, !.fill_price = Some(Numeric(fillPrice, 1)),
                !.filled_qty = filledQty]

\* A fill price looked up again: the price cached now, when there is one.
FillPriceLatest(fillPrice, cached) == IF cached = None THEN fillPrice ELSE cached[1]

\* fillPrice := tick.Price is assigned once, before the transaction, and it
\* is this local that is written, whatever the cache holds by then.
FillPrice(fillPrice, cached) == fillPrice

\* OrderRepo.UpdateStatusTx(req.ID, filled, fillPrice, req.Quantity); an id
\* that matches no row is no error.
UpdateStatusTx(c) ==
    LET rows == OrdersTx(c)
        id == req[c].ID IN
    /\ pc[c] = "updateStatus"
    /\ \/ ReturnErrorTx(c, "update order status")
       \/ /\ tx' = IF id \in DOMAIN rows
                   THEN [tx EXCEPT ![c].orders =
                            Put(@, id, UpdateStatusRow(rows[id], StatusFilled,
                                    FillPrice(loc[c].fillPrice, lastPrice[req[c].Symbol]),
                                    req[c].Quantity))]
                   ELSE tx
          /\ pc' = [pc EXCEPT ![c] = "insertLedger"]
          /\ UNCHANGED <<req, loc, err, db, rowLock>>
    /\ UNCHANGED <<io, lastPrice, ledgerSeq>>
    /\ UNCHANGED hubVars
    /\ UNCHANGED otherVars

\* The domain.LedgerEntry of lines 141-151.
LedgerEntry(o, cost, newBalance) ==
    [portfolio_id |-> o.PortfolioID, order_id |-> o.ID,
     entry_type |-> IF o.Side = SideBuy THEN EntryTradeBuy ELSE EntryTradeSell,
     amount |-> IF o.Side = SideSell THEN cost ELSE 0 - cost,
     balance_after |-> newBalance]

\* The row INSERT INTO ledger stores for entry e: amount and balance_after
\* are rounded to their columns.
LedgerRow(e) ==
    [e EXCEPT !.amount = Numeric(e.amount, 1),
              !.balance_after = Numeric(e.balance_after, 1)]

\* LedgerRepo.InsertTx; the id comes from the sequence, which no rollback
\* takes back.
InsertTx(c) ==
    /\ pc[c] = "insertLedger"
    /\ \/ /\ ReturnErrorTx(c, "insert ledger entry")
          /\ ledgerSeq' = ledgerSeq
       \/ /\ ledgerSeq' = ledgerSeq + 1
          /\ tx' = [tx EXCEPT ![c].ledger =
                        Put(@, ledgerSeq + 1,
                            LedgerRow(LedgerEntry(req[c], loc[c].cost, loc[c].newBalance)))]
          /\ pc' = [pc EXCEPT ![c] = "commit"]
          /\ UNCHANGED <<req, loc, err, db, rowLock>>
    /\ UNCHANGED <<io, lastPrice>>
    /\ UNCHANGED hubVars
    /\ UNCHANGED otherVars

\* tx.Commit() of a fill, then the returned order is completed.
CommitFilled(c) ==
    /\ pc[c] = "commit"
    /\ \/ ReturnErrorTx(c, "commit transaction")
       \/ /\ db' = Commit(db, tx[c])
          /\ tx' = [tx EXCEPT ![c] = EmptyTx]
          /\ rowLock' = [p \in Portfolios |-> rowLock[p] \ {c}]
          /\ req' = [req EXCEPT ![c].Status = StatusFilled,
                                ![c].FillPrice = Some(loc[c].fillPrice),
                                ![c].FilledQty = req[c].Quantity]
          /\ pc' = [pc EXCEPT ![c] = "filled"]
          /\ UNCHANGED <<loc, err>>
    /\ UNCHANGED <<io, lastPrice, ledgerSeq>>
    /\ UNCHANGED hubVars
    /\ UNCHANGED otherVars

Next ==
    \/ \E sym \in Symbols, price \in Prices : Publish(sym, price)
    \/ \E sym \in Symbols : Expire(sym)
    \/ \E c \in Calls :
        \/ Validate(c)
        \/ GetLastPrice(c)
        \/ BeginTxx(c)
        \/ GetByIDForUpdateTx(c)
        \/ GetPosition(c)
        \/ CreateRejected(c)
        \/ CommitRejected(c)
        \/ CreateTx(c)
        \/ UpsertTx(c)
        \/ GetPositionForSell(c)
        \/ DeleteTx(c)
        \/ UpdateQtyTx(c)
        \/ UpdateCashBalanceTx(c)
        \/ UpdateStatusTx(c)
        \/ InsertTx(c)
        \/ CommitFilled(c)

Spec == Init /\ [][Next]_vars

\* ------------------------------------------------------------ properties
Returned == {"filled", "rejected"}
InTransaction ==
    {"lock", "getPosition", "createRejected", "commitRejected", "create", "upsert",
     "getPositionForSell", "delete", "updateQty", "updateCash", "updateStatus",
     "insertLedger", "commit"}

\* v is a value of a NUMERIC(19,4) column and the one nearest to x.
AtScale(v, x) ==
    /\ v % MoneyUnit = 0
    /\ 2 * (IF v < x THEN x - v ELSE v - x) <= MoneyUnit

\* Calls a and b are the only ones that have committed anything, both are buys
\* against one portfolio, each affordable alone with the opening balance, not
\* both together.
RacingBuys(a, b) ==
    /\ a # b
    /\ pc[a] \in Returned /\ pc[b] \in Returned
    /\ DOMAIN db.orders = {a, b}
    /\ req[a].Side = SideBuy /\ req[b].Side = SideBuy
    /\ req[a].PortfolioID = req[b].PortfolioID
    /\ loc[a].cost <= OpeningBalance /\ loc[b].cost <= OpeningBalance
    /\ loc[a].cost + loc[b].cost > OpeningBalance

\* C1: two buys against the same portfolio, each affordable alone but not both
\* together, end under every interleaving with exactly one filled and one
\* rejected, and the committed cash balance is the opening balance less the
\* cost of the filled one (at the scale of the column), never negative.
C1_OneFilledOneRejected ==
    \A a, b \in Calls :
        RacingBuys(a, b) =>
            /\ {pc[a], pc[b]} = {"filled", "rejected"}
            /\ db.portfolios[req[a].PortfolioID].cash_balance >= 0
            /\ AtScale(db.portfolios[req[a].PortfolioID].cash_balance,
                       OpeningBalance - (IF pc[a] = "filled" THEN loc[a].cost ELSE loc[b].cost))

\* The later call won the lock: call 2 is filled, call 1 rejected.
C1_Witness ==
    /\ RacingBuys(1, 2)
    /\ pc[2] = "filled" /\ pc[1] = "rejected"

\* C2: in every committed state every portfolio's cash balance is >= 0.
C2_CashNeverNegative ==
    \A p \in Portfolios : db.portfolios[p].cash_balance >= 0

\* A filled buy has spent the whole balance.
C2_Witness ==
    \E c \in Calls :
        /\ pc[c] = "filled" /\ req[c].Side = SideBuy
        /\ loc[c].cost = loc[c].cashBalance /\ loc[c].cost > 0
        /\ db.portfolios[req[c].PortfolioID].cash_balance = 0

\* Nothing call c wrote is in the committed tables.
NoTraceOf(c) ==
    /\ c \notin DOMAIN db.orders
    /\ \A i \in DOMAIN db.ledger : db.ledger[i].order_id # c

\* C3: a call that fails inside its transaction (at any step from the lock to
\* the commit) returns an error and no order, leaves the committed tables as
\* they were, keeps no uncommitted write and no lock, and no row of it is
\* ever committed.
C3_FailureRollsBack ==
    /\ [][\A c \in Calls :
            (pc[c] \in InTransaction /\ pc'[c] = "failed") =>
                /\ db' = db
                /\ tx'[c] = EmptyTx
                /\ \A p \in Portfolios : c \notin rowLock'[p]
                /\ err'[c] # "" /\ req'[c] = NoOrder]_vars
    /\ [](\A c \in Calls : pc[c] = "failed" => NoTraceOf(c))

\* The commit of a fill failed after every write had been made, and the
\* other call's commit is there.
C3_Witness ==
    \E c \in Calls :
        /\ pc[c] = "failed" /\ err[c] = "commit transaction"
        /\ NoTraceOf(c)
        /\ \E b \in Calls : b # c /\ pc[b] = "filled"

\* Call c commits a fill / a rejection in this step.
Fills(c) == pc[c] = "commit" /\ pc'[c] = "filled"
Rejects(c) == pc[c] = "commitRejected" /\ pc'[c] = "rejected"

\* The committed quantity of a position in tables d, 0 when there is no row.
HeldQty(d, key) == IF key \in DOMAIN d.positions THEN d.positions[key].quantity ELSE 0

\* The ledger entry of portfolio pid with the highest id in tables d.
NewestEntry(d, pid) ==
    LET ids == {i \in DOMAIN d.ledger : d.ledger[i].portfolio_id = pid}
        top == CHOOSE i \in ids : \A j \in ids : j <= i
    IN d.ledger[top]

\* avg is the quotient n / d rounded to the unit of its column.
IsRounded(avg, n, d) ==
    LET diff == avg * d - n IN
    /\ avg % MoneyUnit = 0
    /\ 2 * (IF diff < 0 THEN 0 - diff ELSE diff) <= d * MoneyUnit

C5_WitnessPartial ==
    \E c \in Calls :
        LET key == <<req[c].PortfolioID, req[c].Symbol>> IN
        /\ pc[c] = "filled" /\ req[c].Side = SideSell
        /\ key \in DOMAIN db.positions
        /\ db.positions[key].quantity = loc[c].newQty

\* C6: a committed rejection is a buy with cost > cash balance or a sell with
\* no position or with quantity > held quantity; it leaves portfolios,
\* positions and ledger as they were and every order row as it was, adds the
\* one order row of the call, and returns that order, rejected, with no error.
C6_RejectionFrame ==
    [][\A c \in Calls :
        Rejects(c) =>
            LET pid == req[c].PortfolioID
                key == <<pid, req[c].Symbol>>
            IN  /\ IF req[c].Side = SideBuy
                   THEN (loc[c].fillPrice * req[c].Quantity) \div QtyUnit > db.portfolios[pid].cash_balance
                   ELSE HeldQty(db, key) < req[c].Quantity
                /\ db'.portfolios = db.portfolios
                /\ db'.positions = db.positions
                /\ db'.ledger = db.ledger
                /\ req[c].ID \notin DOMAIN db.orders
                /\ DOMAIN db'.orders = DOMAIN db.orders \cup {req[c].ID}
                /\ \A i \in DOMAIN db.orders : db'.orders[i] = db.orders[i]
                /\ db'.orders[req[c].ID].status = StatusRejected
                /\ err'[c] = ""
                /\ req'[c] = req[c] /\ req'[c].Status = StatusRejected
                /\ req'[c].RejectReason # None]_vars

\* A buy the balance no longer covers has been rejected after a filled buy:
\* the tables hold what the fill left, and the order row of the rejection.
C6_Witness ==
    \E c \in Calls :
        /\ pc[c] = "rejected" /\ req[c].Side = SideBuy
        /\ req[c].RejectReason = Some("insufficient funds")
        /\ db.portfolios[req[c].PortfolioID].cash_balance = loc[c].cashBalance
        /\ loc[c].cashBalance < OpeningBalance
        /\ c \in DOMAIN db.orders /\ db.orders[c].status = StatusRejected
        /\ \A i \in DOMAIN db.ledger : db.ledger[i].order_id # c

\* A sell without a position has been rejected.
C6_WitnessSell ==
    \E c \in Calls :
        /\ pc[c] = "rejected" /\ req[c].Side = SideSell
        /\ req[c].RejectReason = Some("insufficient position")
        /\ db.positions = <<>> /\ db.ledger = <<>>
        /\ c \in DOMAIN db.orders /\ db.orders[c].status = StatusRejected

\* C7: every committed order row with status rejected carries a reject
\* reason, the one of the order returned to the caller.
C7_RejectedRowHasReason ==
    \A c \in Calls :
        (pc[c] = "rejected" /\ c \in DOMAIN db.orders) =>
            /\ db.orders[c].status = StatusRejected
            /\ db.orders[c].reject_reason # None
            /\ db.orders[c].reject_reason = req[c].RejectReason

PriceErrors == {"price lookup failed", "no price data available for symbol"}

\* C8: when the price of the symbol is absent, or the lookup fails, the call
\* returns an error and no order without having opened a transaction or
\* touched PostgreSQL, and the tables, the uncommitted writes and the locks
\* are as they were; no row of the call is ever committed.
C8_NoPriceNoTransaction ==
    /\ [][\A c \in Calls :
            (pc[c] = "price" /\ pc'[c] # "price") =>
                /\ lastPrice[req[c].Symbol] = None => pc'[c] = "failed"
                /\ pc'[c] = "failed" =>
                      /\ err'[c] \in PriceErrors /\ req'[c] = NoOrder
                      /\ db' = db /\ tx' = tx /\ rowLock' = rowLock
                      /\ ledgerSeq' = ledgerSeq
                      /\ "postgres" \notin io'[c]]_vars
    /\ [](\A c \in Calls :
            (pc[c] = "failed" /\ err[c] \in PriceErrors) =>
                NoTraceOf(c) /\ tx[c] = EmptyTx /\ "postgres" \notin io[c])

\* One call found no price, another could not reach the price store.
C8_Witness ==
    \E a, b \in Calls :
        /\ pc[a] = "failed" /\ err[a] = "no price data available for symbol"
        /\ pc[b] = "failed" /\ err[b] = "price lookup failed"
        /\ io[a] = {"redis"} /\ io[b] = {"redis"}
        /\ db.orders = <<>>

ValidationErrors ==
    {"quantity must be greater than zero", "symbol is required",
     "invalid order side", "invalid order type"}

\* quantity > 0, symbol non-empty, side buy or sell, type one of the four.
WellFormed(r) ==
    /\ r.Quantity > 0
    /\ r.Symbol # ""
    /\ r.Side \in {"buy", "sell"}
    /\ r.OrderType \in {"market", "limit", "stop", "stop_limit"}

\* C9: only a well-formed request gets past validation; a malformed one makes
\* the call return a validation error and no order before any I/O: neither
\* store is touched, no transaction is opened, nothing is written, and no row
\* of the call is ever committed.
C9_ValidationBeforeIO ==
    /\ [][\A c \in Calls :
            (pc[c] = "idle" /\ pc'[c] # "idle") =>
                IF pc'[c] = "failed"
                THEN /\ err'[c] \in ValidationErrors /\ req'[c] = NoOrder
                     /\ io'[c] = {}
                     /\ db' = db /\ tx' = tx /\ rowLock' = rowLock
                     /\ ledgerSeq' = ledgerSeq
                ELSE WellFormed(req'[c])]_vars
    /\ [](\A c \in Calls :
            (pc[c] = "failed" /\ err[c] \in ValidationErrors) =>
                io[c] = {} /\ NoTraceOf(c) /\ tx[c] = EmptyTx)

\* A request with quantity 0 and one with an unknown order type have failed.
C9_Witness ==
    \E a, b \in Calls :
        /\ pc[a] = "failed" /\ err[a] = "quantity must be greater than zero"
        /\ pc[b] = "failed" /\ err[b] = "invalid order type"
        /\ io[a] = {} /\ io[b] = {}
        /\ db.orders = <<>>

\* C10: every committed order row has status filled or rejected, and a
\* committed order row is never changed or removed afterwards.
C10_TerminalOrders ==
    /\ [](\A i \in DOMAIN db.orders :
            db.orders[i].status \in {StatusFilled, StatusRejected})
    /\ [][\A i \in DOMAIN db.orders :
            i \in DOMAIN db'.orders /\ db'.orders[i] = db.orders[i]]_vars

\* A filled order and a rejected order are both committed.
C10_Witness ==
    /\ DOMAIN db.orders = {1, 2}
    /\ {db.orders[1].status, db.orders[2].status} = {StatusFilled, StatusRejected}
    /\ \E i \in {1, 2} : db.orders[i].fill_price # None /\ db.orders[i].filled_qty > 0

\* The sum of the amounts of the ledger entries of table l with ids in ids.
RECURSIVE SumAmounts(_, _)
SumAmounts(l, ids) ==
    IF ids = {} THEN 0
    ELSE LET i == CHOOSE j \in ids : TRUE IN l[i].amount + SumAmounts(l, ids \ {i})

\* The sum of the amounts of the committed ledger entries of portfolio pid.
LedgerSum(d, pid) ==
    SumAmounts(d.ledger, {i \in DOMAIN d.ledger : d.ledger[i].portfolio_id = pid})

\* A committed ledger entry stays as it is.
LedgerAppendOnly ==
    \A i \in DOMAIN db.ledger : i \in DOMAIN db'.ledger /\ db'.ledger[i] = db.ledger[i]

\* C11: in every committed state the amounts of the ledger entries of each
\* portfolio sum to its cash balance less its opening balance, and a
\* committed ledger entry is never changed or removed.
C11_Reconciliation ==
    /\ [](\A p \in Portfolios :
            LedgerSum(db, p) = db.portfolios[p].cash_balance - OpeningBalance)
    /\ [][LedgerAppendOnly]_vars

\* C11, its second half alone: a committed ledger entry is never changed or
\* removed.
C11_AppendOnly == [][LedgerAppendOnly]_vars

\* C12: in every committed state every stored position has quantity > 0 and
\* is the one row of its (portfolio, symbol); a sell that takes the quantity
\* to 0 commits with the row deleted.
C12_PositionsPositive ==
    /\ [](\A key \in DOMAIN db.positions :
            /\ db.positions[key].quantity > 0
            /\ key \in Portfolios \X Symbols)
    /\ [][\A c \in Calls :
            LET key == <<req[c].PortfolioID, req[c].Symbol>> IN
            (Fills(c) /\ req[c].Side = SideSell /\ HeldQty(db, key) = req[c].Quantity)
                => key \notin DOMAIN db'.positions]_vars

\* A position bought by one call has been sold whole by the other: both
\* orders are filled and no position row is left.
C12_Witness ==
    \E a, b \in Calls :
        /\ pc[a] = "filled" /\ req[a].Side = SideBuy
        /\ pc[b] = "filled" /\ req[b].Side = SideSell
        /\ req[a].PortfolioID = req[b].PortfolioID
        /\ req[a].Quantity = req[b].Quantity
        /\ db.positions = <<>>

\* The rows of table t that belong to portfolio q.
RowsOf(t, q) == [i \in {j \in DOMAIN t : t[j].portfolio_id = q} |-> t[i]]

\* Everything committed for portfolio q: its cash balance, its positions,
\* its orders and its ledger entries.
PortfolioRows(d, q) ==
    [cash      |-> d.portfolios[q].cash_balance,
     positions |-> [k \in {j \in DOMAIN d.positions : j[1] = q} |-> d.positions[k]],
     orders    |-> RowsOf(d.orders, q),
     ledger    |-> RowsOf(d.ledger, q)]

\* Call c takes the row lock of its portfolio in this step.
TakesLock(c) ==
    /\ GetByIDForUpdateTx(c)
    /\ c \in rowLock'[req[c].PortfolioID]

\* C13: the committed rows of a portfolio change only in the commit of a call
\* against that portfolio; that call commits what it computed from the
\* balance its portfolio has at the commit, as if the calls against the
\* portfolio ran one after the other in the order of their locks; and a call
\* waiting for the row lock of its portfolio can take it whenever no other
\* call holds that row, whatever rows of other portfolios are locked.
C13_PortfolioIsolation ==
    /\ [][\A q \in Portfolios :
            PortfolioRows(db', q) # PortfolioRows(db, q) =>
                \E c \in Calls :
                    /\ Fills(c) \/ Rejects(c)
                    /\ req[c].PortfolioID = q
                    /\ loc[c].cashBalance = db.portfolios[q].cash_balance
                    /\ \A b \in Calls \ {c} : q \notin DOMAIN tx[b].portfolios]_vars
    /\ [](\A c \in Calls :
            (pc[c] = "lock" /\ rowLock[req[c].PortfolioID] \ {c} = {})
                => ENABLED TakesLock(c))

\* Two calls against different portfolios hold their row locks at once, each
\* with all its writes made and about to commit.
C13_Witness ==
    \E a, b \in Calls :
        /\ pc[a] = "commit" /\ pc[b] = "commit"
        /\ req[a].PortfolioID # req[b].PortfolioID
        /\ a \in rowLock[req[a].PortfolioID] /\ b \in rowLock[req[b].PortfolioID]

\* ------------------------------------------------------------ fan-out hub
\* A subscriber set is a Go map: its identity (the number of the bridge
\* started with it) and its members.  A goroutine that holds the map sees the
\* members it has now, and none once the map is emptied and dropped.
Members(s, sym) == IF sym \in DOMAIN s THEN s[sym].set ELSE {}
Held(s, id) ==
    IF \E sym \in DOMAIN s : s[sym].id = id
    THEN s[CHOOSE sym \in DOMAIN s : s[sym].id = id].set
    ELSE {}

\* A PriceTick payload as it travels: its symbol and the number of its publish.
Tick(sym, n) == [symbol |-> sym, n |-> n]
NoTick == Tick("", 0)

\* A pumpRedis goroutine: its symbol, whether its context is cancelled, where
\* it stands ("start": before priceRepo.Subscribe; "select"; "range" and
\* "send": inside fanOut), the messages waiting in pubsub.Channel(), and the
\* locals of fanOut: data, the map `clients`, the keys the range has produced,
\* the loop variable `client`.
NewPump(sym) ==
    [symbol |-> sym, cancelled |-> FALSE, pc |-> "start", ch |-> <<>>,
     data |-> NoTick, held |-> 0, visited |-> {}, client |-> ""]

\* The loop over h.subs in the unregister case, stopping at the first symbol
\* the client is subscribed to.
SubscribedFirst(s, client) ==
    LET all == {sym \in DOMAIN s : client \in s[sym].set} IN
    IF all = {} THEN {} ELSE {CHOOSE sym \in all : TRUE}

\* The symbols the unregister case finds the client subscribed to.
Subscribed(s, client) == {sym \in DOMAIN s : client \in s[sym].set}

\* Removal that never finds a subscriber set empty.
EmptiedNever(s, client, syms) == {}

\* delete(clients, client) for the subscriber sets of syms: the symbols for
\* which len(clients) == 0 afterwards.
Emptied(s, client, syms) ==
    {sym \in DOMAIN s \cap syms : s[sym].set \ {client} = {}}

\* h.subs after delete(clients, client) for the sets of syms and
\* delete(h.subs, sym) for those left empty.
Removed(s, client, syms) ==
    [sym \in DOMAIN s \ Emptied(s, client, syms) |->
        IF sym \in syms THEN [s[sym] EXCEPT !.set = @ \ {client}] ELSE s[sym]]

\* h.redisCancels after delete(h.redisCancels, sym) for the emptied symbols.
Forgotten(cancels, gone) == [sym \in DOMAIN cancels \ gone |-> cancels[sym]]

\* cancel() of the emptied symbols that have one: the contexts of their
\* bridges are cancelled; the goroutines run on until they look.
Cancelled(ps, cancels, gone) ==
    [b \in DOMAIN ps |->
        IF \E sym \in gone \cap DOMAIN cancels : cancels[sym] = b
        THEN [ps[b] EXCEPT !.cancelled = TRUE] ELSE ps[b]]

\* A bridge is inside fanOut's range over the map numbered id while Hub.Run
\* writes to it: a data race.
Ranging(id) ==
    \E b \in DOMAIN pumps : pumps[b].pc \in {"range", "send"} /\ pumps[b].held = id

\* The maps of the subscriber sets of syms.
MapsOf(s, syms) == {s[sym].id : sym \in DOMAIN s \cap syms}

\* The process dies: a panic in a goroutine, or the runtime's fatal error
\* "concurrent map iteration and map write".
Dies ==
    /\ panicked' = TRUE
    /\ UNCHANGED <<clients, subs, redisCancels, register, unregister, subscribe,
                   unsubscribe, hubDone, send, closed, conn, pumps, started,
                   published, sent, owed>>

\* The history of what is owed: a client taken out of a subscriber set is
\* owed no tick of these symbols any more.
StillOwed(o, client, syms) ==
    {p \in o : ~(p[1] = client /\ p[2].symbol \in syms)}

Alive == ~panicked

\* ServeWS: the connection is upgraded, the client goes to hub.register, and
\* its pumps start.
ServeWS(c) ==
    /\ Alive
    /\ conn[c] = "none"
    /\ conn' = [conn EXCEPT ![c] = "open"]
    /\ register' = Append(register, c)
    /\ sent' = [sent EXCEPT ![c] = Append(@, <<"register", "">>)]
    /\ UNCHANGED <<clients, subs, redisCancels, unregister, subscribe, unsubscribe,
                   hubDone, send, closed, pumps, started, published, panicked, owed>>
    /\ UNCHANGED vars
    /\ UNCHANGED otherVars

\* The messages the read pumps have read and forwarded so far.
MsgsRead ==
    Cardinality({<<c, i>> \in Clients \X (1..(MaxMsgs + 2)) :
                    i <= Len(sent[c]) /\ sent[c][i][1] \in {"subscribe", "unsubscribe"}})

\* Client.readPump reads one message {action, symbols: [sym]} and forwards it.
ReadMessage(c, action, sym) ==
    /\ Alive
    /\ conn[c] = "open"
    /\ MsgsRead < MaxMsgs
    /\ IF action = "subscribe"
       THEN /\ subscribe' = Append(subscribe, [client |-> c, symbol |-> sym])
            /\ UNCHANGED unsubscribe
       ELSE /\ unsubscribe' = Append(unsubscribe, [client |-> c, symbol |-> sym])
            /\ UNCHANGED subscribe
    /\ sent' = [sent EXCEPT ![c] = Append(@, <<action, sym>>)]
    /\ UNCHANGED <<clients, subs, redisCancels, register, unregister, hubDone, send,
                   closed, conn, pumps, started, published, panicked, owed>>
    /\ UNCHANGED vars
    /\ UNCHANGED otherVars

\* Client.readPump ends on a read error (the peer is gone, the deadline has
\* passed, or writePump has closed the connection): the deferred function
\* sends the client to hub.unregister and closes the connection, which ends
\* writePump too.
ReadError(c) ==
    /\ Alive
    /\ conn[c] = "open"
    /\ conn' = [conn EXCEPT ![c] = "closed"]
    /\ unregister' = Append(unregister, c)
    /\ sent' = [sent EXCEPT ![c] = Append(@, <<"unregister", "">>)]
    /\ UNCHANGED <<clients, subs, redisCancels, register, subscribe, unsubscribe,
                   hubDone, send, closed, pumps, started, published, panicked, owed>>
    /\ UNCHANGED vars
    /\ UNCHANGED otherVars

\* Client.writePump takes the next message from c.send and writes it.
WritePump(c) ==
    /\ Alive
    /\ conn[c] = "open"
    /\ send[c] # <<>>
    /\ send' = [send EXCEPT ![c] = Tail(@)]
    /\ UNCHANGED <<clients, subs, redisCancels, register, unregister, subscribe,
                   unsubscribe, hubDone, closed, conn, pumps, started, published,
                   panicked, sent, owed>>
    /\ UNCHANGED vars
    /\ UNCHANGED otherVars

\* Hub.Run, case client := <-h.register
Register ==
    /\ Alive /\ ~hubDone
    /\ register # <<>>
    /\ LET client == Head(register) IN
       /\ clients' = clients \cup {client}
    /\ register' = Tail(register)
    /\ UNCHANGED <<subs, redisCancels, unregister, subscribe, unsubscribe, hubDone,
                   send, closed, conn, pumps, started, published, panicked, sent, owed>>
    /\ UNCHANGED vars
    /\ UNCHANGED otherVars

\* The unregister case without its check of h.clients.
RegisteredAlways(cs, client) == TRUE

\* if _, ok := h.clients[client]; ok
Registered(cs, client) == client \in cs

\* Hub.Run, case client := <-h.unregister
Unregister ==
    /\ Alive /\ ~hubDone
    /\ unregister # <<>>
    /\ LET client == Head(unregister)
           syms == Subscribed(subs, client)
           gone == Emptied(subs, client, syms) IN
       \/ /\ Registered(clients, client)
          /\ \E id \in MapsOf(subs, syms) : Ranging(id)
          /\ Dies
          /\ UNCHANGED vars
          /\ UNCHANGED otherVars
       \/ /\ unregister' = Tail(unregister)
          /\ IF Registered(clients, client)
             THEN /\ clients' = clients \ {client}
                  /\ subs' = Removed(subs, client, syms)
                  /\ redisCancels' = Forgotten(redisCancels, gone)
                  /\ pumps' = Cancelled(pumps, redisCancels, gone)
                  /\ closed' = closed \cup {client}
                  /\ owed' = StillOwed(owed, client, syms)
             ELSE UNCHANGED <<clients, subs, redisCancels, pumps, closed, owed>>
          /\ UNCHANGED <<register, subscribe, unsubscribe, hubDone, send, conn,
                         started, published, panicked, sent>>
          /\ UNCHANGED vars
          /\ UNCHANGED otherVars

\* Hub.Run, case sub := <-h.subscribe
Subscribe ==
    /\ Alive /\ ~hubDone
    /\ subscribe # <<>>
    /\ LET sub == Head(subscribe) IN
       \/ /\ sub.symbol \in DOMAIN subs
          /\ Ranging(subs[sub.symbol].id)
          /\ Dies
          /\ UNCHANGED vars
          /\ UNCHANGED otherVars
       \/ /\ subscribe' = Tail(subscribe)
          /\ IF sub.symbol \notin DOMAIN subs
             THEN /\ started' = started + 1
                  /\ subs' = Put(subs, sub.symbol, [id |-> started + 1, set |-> {sub.client}])
                  /\ redisCancels' = Put(redisCancels, sub.symbol, started + 1)
                  /\ pumps' = Put(pumps, started + 1, NewPump(sub.symbol))
             ELSE /\ subs' = [subs EXCEPT ![sub.symbol].set = @ \cup {sub.client}]
                  /\ UNCHANGED <<started, redisCancels, pumps>>
          /\ UNCHANGED <<clients, register, unregister, unsubscribe, hubDone, send,
                         closed, conn, published, panicked, sent, owed>>
          /\ UNCHANGED vars
          /\ UNCHANGED otherVars

\* Hub.Run, case sub := <-h.unsubscribe
Unsubscribe ==
    /\ Alive /\ ~hubDone
    /\ unsubscribe # <<>>
    /\ LET sub == Head(unsubscribe)
           syms == {sub.symbol} \cap DOMAIN subs
           gone == Emptied(subs, sub.client, syms) IN
       \/ /\ \E id \in MapsOf(subs, syms) : Ranging(id)
          /\ Dies
          /\ UNCHANGED vars
          /\ UNCHANGED otherVars
       \/ /\ unsubscribe' = Tail(unsubscribe)
          /\ subs' = Removed(subs, sub.client, syms)
          /\ redisCancels' = Forgotten(redisCancels, gone)
          /\ pumps' = Cancelled(pumps, redisCancels, gone)
          /\ owed' = StillOwed(owed, sub.client, syms)
          /\ UNCHANGED <<clients, register, unregister, subscribe, hubDone, send,
                         closed, conn, started, published, panicked, sent>>
          /\ UNCHANGED vars
          /\ UNCHANGED otherVars

\* Hub.Run, case <-ctx.Done(): Run returns; the contexts of the bridges are
\* children of ctx and are cancelled with it.
RunDone ==
    /\ Alive /\ ~hubDone
    /\ hubDone' = TRUE
    /\ pumps' = [b \in DOMAIN pumps |-> [pumps[b] EXCEPT !.cancelled = TRUE]]
    /\ UNCHANGED <<clients, subs, redisCancels, register, unregister, subscribe,
                   unsubscribe, send, closed, conn, started, published, panicked,
                   sent, owed>>
    /\ UNCHANGED vars
    /\ UNCHANGED otherVars

\* PriceRepo.Publish, the PUBLISH to prices.{symbol} (the SET of
\* last_price:{symbol} is the action Publish): Redis hands the payload to the
\* subscriptions that are active now, and keeps it for nobody.
PublishTick(sym) ==
    /\ Alive
    /\ published < MaxTicks
    /\ published' = published + 1
    /\ pumps' = [b \in DOMAIN pumps |->
                    IF pumps[b].symbol = sym /\ pumps[b].pc # "start"
                    THEN [pumps[b] EXCEPT !.ch = Append(@, Tick(sym, published + 1))]
                    ELSE pumps[b]]
    /\ owed' = owed \cup {<<c, Tick(sym, published + 1)>> : c \in Members(subs, sym)}
    /\ UNCHANGED <<clients, subs, redisCancels, register, unregister, subscribe,
                   unsubscribe, hubDone, send, closed, conn, started, panicked,
                   sent>>
    /\ UNCHANGED vars
    /\ UNCHANGED otherVars

\* pumpRedis: h.priceRepo.Subscribe and pubsub.Channel(); from now on the
\* ticks published on the symbol reach ch.
PumpSubscribe(b) ==
    /\ Alive
    /\ b \in DOMAIN pumps
    /\ pumps[b].pc = "start"
    /\ pumps' = [pumps EXCEPT ![b].pc = "select"]
    /\ UNCHANGED <<clients, subs, redisCancels, register, unregister, subscribe,
                   unsubscribe, hubDone, send, closed, conn, started, published,
                   panicked, sent, owed>>
    /\ UNCHANGED vars
    /\ UNCHANGED otherVars

\* pumpRedis, case <-ctx.Done(): return, and the deferred pubsub.Close().
PumpDone(b) ==
    /\ Alive
    /\ b \in DOMAIN pumps
    /\ pumps[b].pc = "select"
    /\ pumps[b].cancelled
    /\ pumps' = Drop(pumps, b)
    /\ UNCHANGED <<clients, subs, redisCancels, register, unregister, subscribe,
                   unsubscribe, hubDone, send, closed, conn, started, published,
                   panicked, sent, owed>>
    /\ UNCHANGED vars
    /\ UNCHANGED otherVars

\* pumpRedis, case msg := <-ch (select takes any case that is ready, also
\* when the context is cancelled), json.Marshal of the payload, which is the
\* JSON Publish marshalled, and the entry of fanOut: clients, ok := h.subs[symbol].
PumpReceive(b) ==
    /\ Alive
    /\ b \in DOMAIN pumps
    /\ pumps[b].pc = "select"
    /\ pumps[b].ch # <<>>
    /\ pumps' = [pumps EXCEPT ![b] =
                    IF @.symbol \in DOMAIN subs
                    THEN [@ EXCEPT !.ch = Tail(@), !.pc = "range", !.data = Head(pumps[b].ch),
                                   !.held = subs[pumps[b].symbol].id, !.visited = {}]
                    ELSE [@ EXCEPT !.ch = Tail(@)]]
    /\ UNCHANGED <<clients, subs, redisCancels, register, unregister, subscribe,
                   unsubscribe, hubDone, send, closed, conn, started, published,
                   panicked, sent, owed>>
    /\ UNCHANGED vars
    /\ UNCHANGED otherVars

\* fanOut: for client := range clients produces the next key of the map, or
\* ends the loop and fanOut when every key has been produced.
PumpRange(b) ==
    /\ Alive
    /\ b \in DOMAIN pumps
    /\ pumps[b].pc = "range"
    /\ LET rest == Held(subs, pumps[b].held) \ pumps[b].visited IN
       IF rest = {}
       THEN pumps' = [pumps EXCEPT ![b].pc = "select", ![b].data = NoTick,
                                   ![b].held = 0, ![b].visited = {}, ![b].client = ""]
       ELSE \E c \in rest :
                pumps' = [pumps EXCEPT ![b].pc = "send", ![b].client = c,
                                       ![b].visited = @ \cup {c}]
    /\ UNCHANGED <<clients, subs, redisCancels, register, unregister, subscribe,
                   unsubscribe, hubDone, send, closed, conn, started, published,
                   panicked, sent, owed>>
    /\ UNCHANGED vars
    /\ UNCHANGED otherVars

\* A plain send, client.send <- data, waits while the buffer is full.
FanOutBlockedWhenFull(buf) == Len(buf) >= SendCap

\* select { case client.send <- data: default: } waits for nobody.
FanOutBlocked(buf) == FALSE

\* fanOut: select { case client.send <- data: default: }.  A send on a closed
\* channel panics; a full buffer takes the default case.
PumpSend(b) ==
    /\ Alive
    /\ b \in DOMAIN pumps
    /\ pumps[b].pc = "send"
    /\ LET c == pumps[b].client
           data == pumps[b].data IN
       /\ ~FanOutBlocked(send[c])
       /\ IF c \in closed
          THEN /\ panicked' = TRUE
               /\ UNCHANGED <<send, owed, pumps>>
          ELSE /\ send' = IF Len(send[c]) < SendCap
                          THEN [send EXCEPT ![c] = Append(@, data)]
                          ELSE send
               /\ owed' = owed \ {<<c, data>>}
               /\ pumps' = [pumps EXCEPT ![b].pc = "range", ![b].client = ""]
               /\ UNCHANGED panicked
    /\ UNCHANGED <<clients, subs, redisCancels, register, unregister, subscribe,
                   unsubscribe, hubDone, closed, conn, started, published, sent>>
    /\ UNCHANGED vars
    /\ UNCHANGED otherVars

HubNext ==
    \/ \E c \in Clients : ServeWS(c)
    \/ \E c \in Clients, action \in {"subscribe", "unsubscribe"}, sym \in Streams :
            ReadMessage(c, action, sym)
    \/ \E c \in Clients : ReadError(c)
    \/ \E c \in Clients : WritePump(c)
    \/ Register
    \/ Unregister
    \/ Subscribe
    \/ Unsubscribe
    \/ RunDone
    \/ \E sym \in Streams : PublishTick(sym)
    \/ \E b \in 1..MaxMsgs :
        \/ PumpSubscribe(b)
        \/ PumpDone(b)
        \/ PumpReceive(b)
        \/ PumpRange(b)
        \/ PumpSend(b)

HubSpec == Init /\ [][HubNext]_hubVars

\* ------------------------------------------------------- hub properties
\* The bridges running for symbol sym: started and not yet returned.
Bridges(sym) == {b \in DOMAIN pumps : pumps[b].symbol = sym}

\* The hub has cancelled bridge b and discarded its handle.
TornDown(b) == \A sym \in DOMAIN redisCancels : redisCancels[sym] # b

\* Bridge b takes a message from its upstream channel in this step.
ReadsUpstream(b) ==
    /\ b \in DOMAIN pumps /\ b \in DOMAIN pumps'
    /\ Len(pumps'[b].ch) < Len(pumps[b].ch)

\* Bridge b passes the select of fanOut for one client in this step.
FansOut(b) ==
    /\ b \in DOMAIN pumps /\ b \in DOMAIN pumps'
    /\ pumps[b].pc = "send" /\ pumps'[b].pc = "range"

\* C14: at every moment at most one bridge per symbol is running, and a
\* bridge the hub has torn down (its last subscriber gone, its context
\* cancelled, its handle discarded) reads no further message from upstream
\* and fans nothing out.
C14_OneBridgePerSymbol ==
    /\ [](\A sym \in Streams : Cardinality(Bridges(sym)) <= 1)
    /\ [][\A b \in DOMAIN pumps :
            TornDown(b) => ~ReadsUpstream(b) /\ ~FansOut(b)]_hubVars

\* C14, its first half alone: at most one bridge per symbol is running.
C14_AtMostOneBridge == \A sym \in Streams : Cardinality(Bridges(sym)) <= 1

\* C15: the symbols with a retained cancellation handle are the symbols
\* whose subscriber set exists, and every subscriber set that exists has a
\* member.
C15_BridgedIffSubscribed ==
    /\ DOMAIN redisCancels = DOMAIN subs
    /\ \A sym \in DOMAIN subs : subs[sym].set # {}

\* Two symbols have been subscribed; one has lost its only subscriber, whose
\* unregister has been processed, and is torn down, the other is bridged.
C15_Witness ==
    /\ started = 2
    /\ \E sym \in Streams : DOMAIN subs = {sym} /\ DOMAIN redisCancels = {sym}
    /\ closed # {}
    /\ unregister = <<>> /\ subscribe = <<>> /\ unsubscribe = <<>>

\* The commands of client c waiting in the channels of the hub.
Pending(c) ==
    Cardinality({i \in 1..Len(register) : register[i] = c})
      + Cardinality({i \in 1..Len(unregister) : unregister[i] = c})
      + Cardinality({i \in 1..Len(subscribe) : subscribe[i].client = c})
      + Cardinality({i \in 1..Len(unsubscribe) : unsubscribe[i].client = c})

\* The oldest command client c has submitted that the hub has not processed.
Oldest(c) == sent[c][Len(sent[c]) - Pending(c) + 1]

\* C16: the hub processes the commands in the order they were submitted:
\* the command it takes is the oldest unprocessed command of its client.
C16_ArrivalOrder ==
    [][/\ (register # <<>> /\ register' = Tail(register))
            => Oldest(Head(register)) = <<"register", "">>
       /\ (unregister # <<>> /\ unregister' = Tail(unregister))
            => Oldest(Head(unregister)) = <<"unregister", "">>
       /\ (subscribe # <<>> /\ subscribe' = Tail(subscribe))
            => Oldest(Head(subscribe).client) = <<"subscribe", Head(subscribe).symbol>>
       /\ (unsubscribe # <<>> /\ unsubscribe' = Tail(unsubscribe))
            => Oldest(Head(unsubscribe).client) = <<"unsubscribe", Head(unsubscribe).symbol>>
      ]_hubVars

\* C17: when the hub has processed unregister for a registered client, the
\* client is in no subscriber set and not in the client set, every symbol it
\* was the last subscriber of has lost its set and its handle and the bridge
\* of the handle is cancelled, the other sets have lost nobody else, and the
\* client's send channel is closed.
C17_UnregisterCleansUp ==
    [][(unregister # <<>> /\ unregister' = Tail(unregister) /\ Head(unregister) \in clients)
        => LET c == Head(unregister) IN
           /\ c \notin clients'
           /\ c \in closed'
           /\ \A sym \in DOMAIN subs' : c \notin subs'[sym].set
           /\ \A sym \in DOMAIN subs :
                IF subs[sym].set = {c}
                THEN /\ sym \notin DOMAIN subs'
                     /\ sym \notin DOMAIN redisCancels'
                     /\ \A b \in DOMAIN pumps :
                            redisCancels[sym] = b => pumps'[b].cancelled
                ELSE /\ sym \in DOMAIN subs'
                     /\ subs'[sym].set = subs[sym].set \ {c}
                     /\ redisCancels'[sym] = redisCancels[sym]
      ]_hubVars

\* A client subscribed to both symbols, alone, has been unregistered: no
\* set is left, both bridges are cancelled, its channel is closed.
C17_Witness ==
    \E c \in Clients :
        /\ c \in closed /\ c \notin clients
        /\ subs = <<>> /\ redisCancels = <<>>
        /\ started = 2
        /\ DOMAIN pumps = {1, 2}
        /\ pumps[1].cancelled /\ pumps[2].cancelled
        /\ ~hubDone

\* C18: a tick of symbol X is put on the send channel of a client only while
\* the client is in the subscriber set of X.
C18_OnlySubscribers ==
    [][\A c \in Clients :
        Len(send'[c]) > Len(send[c])
            => c \in Members(subs, send'[c][Len(send'[c])].symbol)]_hubVars

\* No bridge has a message waiting or a fan-out under way.
Quiescent ==
    /\ Alive /\ ~hubDone
    /\ \A b \in DOMAIN pumps : pumps[b].ch = <<>> /\ pumps[b].pc \in {"start", "select"}

\* C19: a tick published on X after a client's subscribe to X has been
\* processed is put on the client's channel unless the channel is full: once
\* no bridge has anything left to do, no client still in the subscriber set
\* is owed a tick.
C19_SubscribersGetTicks == Quiescent => owed = {}

\* C20: the select of fanOut never waits: with the client's buffer full the
\* tick is dropped and no channel changes, otherwise the tick is appended to
\* that client's channel alone; the range then goes on, and it ends only
\* when every member of the set has had its turn; the hub loop takes the
\* next command whatever the clients' buffers hold.
C20_FanOutNeverBlocks ==
    /\ [][\A b \in DOMAIN pumps :
            LET c == pumps[b].client IN
            /\ FansOut(b) =>
                  /\ send' = IF Len(send[c]) >= SendCap THEN send
                             ELSE [send EXCEPT ![c] = Append(@, pumps[b].data)]
                  /\ pumps'[b].visited = pumps[b].visited
                  /\ <<c, pumps[b].data>> \notin owed'
            /\ (b \in DOMAIN pumps' /\ pumps[b].pc = "range" /\ pumps'[b].pc = "select") =>
                  \A m \in Held(subs, pumps[b].held) : <<m, pumps[b].data>> \notin owed
         ]_hubVars
    /\ [](Alive =>
            /\ \A b \in DOMAIN pumps :
                /\ pumps[b].pc = "send" => ENABLED PumpSend(b)
                /\ pumps[b].pc = "range" => ENABLED PumpRange(b)
            /\ (~hubDone /\ register # <<>>) => ENABLED Register
            /\ (~hubDone /\ unregister # <<>>) => ENABLED Unregister
            /\ (~hubDone /\ subscribe # <<>>) => ENABLED Subscribe
            /\ (~hubDone /\ unsubscribe # <<>>) => ENABLED Unsubscribe)

\* Both clients are subscribed to one symbol; the second tick has been
\* dropped for the client whose buffer still holds the first, and the other
\* client has got it.
C20_Witness ==
    \E sym \in Streams : \E full, free \in Clients :
        /\ full # free
        /\ {full, free} \subseteq Members(subs, sym)
        /\ send[full] = <<Tick(sym, 1)>>
        /\ send[free] = <<Tick(sym, 2)>>
        /\ owed = {}
        /\ Quiescent

\* ------------------------------------------------- price store in time
\* The lifetime of last_price:{symbol}: 60*time.Second.
TTL == 60

\* The times that pass between two steps: just under the lifetime, and the
\* lifetime.
Delays == {TTL - 1, TTL}

\* The ticks the ingestion client publishes (domain.PriceTick).
PriceTick(sym, price) == [Symbol |-> sym, Price |-> price, Size |-> 1, Timestamp |-> 0]
PriceTicks == {PriceTick(sym, price) : sym \in Symbols, price \in {1, 2}}

\* json.Marshal(tick): the object with the keys of the json tags, in the
\* order of the fields.
Marshal(tick) ==
    << <<"symbol", tick.Symbol>>, <<"price", tick.Price>>,
       <<"size", tick.Size>>, <<"timestamp", tick.Timestamp>> >>

\* The value of key k in the JSON object data, 0 when the key is missing
\* (the zero value of the field).
Field(data, k) ==
    IF \E i \in 1..Len(data) : data[i][1] = k
    THEN data[CHOOSE i \in 1..Len(data) : data[i][1] = k][2]
    ELSE 0

\* json.Unmarshal([]byte(val), &tick)
Unmarshal(data) ==
    [Symbol |-> Field(data, "symbol"), Price |-> Field(data, "price"),
     Size |-> Field(data, "size"), Timestamp |-> Field(data, "timestamp")]

\* SET key data EX 60 with the lifetime of the key it replaces kept.
ExpireAtKept(entry, t) == IF entry = None THEN t + TTL ELSE entry[1].expireAt

\* SET key data EX 60 at time t: the key lives until t + 60 s, whatever was
\* there.
ExpireAt(entry, t) == t + TTL

\* GET key at time t: the value, or redis.Nil (None) when the key is missing
\* or its lifetime has passed.
Get(entry, t) ==
    IF entry # None /\ t < entry[1].expireAt THEN Some(entry[1].data) ELSE None

\* Time passes.
Elapse(d) ==
    /\ now + d <= MaxTime
    /\ now' = now + d
    /\ UNCHANGED <<cacheKV, broadcast, pub, pubs, got, lastSet, before>>
    /\ UNCHANGED <<vars, hubVars, feedVars, connVars, extVars>>

\* PriceRepo.Publish: json.Marshal, and the two commands are queued in the
\* pipeline and sent by pipe.Exec.
PipeExec(tick) ==
    /\ pub.pc = "idle"
    /\ pubs < MaxPubs
    /\ pubs' = pubs + 1
    /\ pub' = [pc |-> "publish", symbol |-> tick.Symbol, data |-> Marshal(tick), err |-> ""]
    /\ before' = [broadcast |-> broadcast, lastSet |-> lastSet]
    /\ UNCHANGED <<now, cacheKV, broadcast, got, lastSet>>
    /\ UNCHANGED <<vars, hubVars, feedVars, connVars, extVars>>

\* The pipeline is a batch, not a transaction (Pipeline, not TxPipeline): the
\* server runs its commands one after the other, and commands of other
\* connections may run in between.  First PUBLISH prices.{symbol}.
PipePublish ==
    /\ pub.pc = "publish"
    /\ broadcast' = [broadcast EXCEPT ![pub.symbol] = Append(@, pub.data)]
    /\ pub' = [pub EXCEPT !.pc = "set"]
    /\ UNCHANGED <<now, cacheKV, pubs, got, lastSet, before>>
    /\ UNCHANGED <<vars, hubVars, feedVars, connVars, extVars>>

\* Then SET last_price:{symbol} data EX 60, which the server refuses when it
\* is out of memory (PUBLISH is not refused).
PipeSet ==
    /\ pub.pc = "set"
    /\ \/ /\ cacheKV' = [cacheKV EXCEPT ![pub.symbol] =
                            Some([data |-> pub.data,
                                  expireAt |-> ExpireAt(cacheKV[pub.symbol], now)])]
          /\ lastSet' = [lastSet EXCEPT ![pub.symbol] =
                            Some([tick |-> Unmarshal(pub.data), at |-> now])]
          /\ pub' = [pub EXCEPT !.pc = "reply"]
       \/ /\ pub' = [pub EXCEPT !.pc = "reply", !.err = "OOM command not allowed"]
          /\ UNCHANGED <<cacheKV, lastSet>>
    /\ UNCHANGED <<now, broadcast, pubs, got, before>>
    /\ UNCHANGED <<vars, hubVars, feedVars, connVars, extVars>>

\* pipe.Exec returns: the error of the command that failed, an error of the
\* connection although the commands have run, or nil.  Or the connection
\* fails before the server has seen the batch.
PipeReturn ==
    /\ \/ /\ pub.pc = "reply"
          /\ \E e \in {pub.err, "i/o timeout"} :
                pub' = [pub EXCEPT !.pc = "idle", !.err = e]
       \/ /\ pub.pc = "publish"
          /\ pub' = [pub EXCEPT !.pc = "idle", !.err = "connection refused"]
    /\ UNCHANGED <<now, cacheKV, broadcast, pubs, got, lastSet, before>>
    /\ UNCHANGED <<vars, hubVars, feedVars, connVars, extVars>>

\* PriceRepo.GetLastPrice: GET last_price:{symbol}; redis.Nil becomes
\* (nil, nil), another error is returned, a value is unmarshalled.
PriceRepoGetLastPrice(sym) ==
    /\ got.n < MaxReads
    /\ \/ LET val == Get(cacheKV[sym], now) IN
          got' = [n |-> got.n + 1, symbol |-> sym,
                  tick |-> IF val = None THEN None ELSE Some(Unmarshal(val[1])),
                  err |-> ""]
       \/ got' = [n |-> got.n + 1, symbol |-> sym, tick |-> None,
                  err |-> "redis get last price"]
    /\ UNCHANGED <<now, cacheKV, broadcast, pub, pubs, lastSet, before>>
    /\ UNCHANGED <<vars, hubVars, feedVars, connVars, extVars>>

StoreNext ==
    \/ \E d \in Delays : Elapse(d)
    \/ \E tick \in PriceTicks : PipeExec(tick)
    \/ PipePublish
    \/ PipeSet
    \/ PipeReturn
    \/ \E sym \in Symbols : PriceRepoGetLastPrice(sym)

StoreSpec == Init /\ [][StoreNext]_storeVars

\* ----------------------------------------------------- store properties
\* C21: when Redis answers, GetLastPrice(symbol) returns the tick of the
\* latest Publish applied to the symbol's key while less than 60 seconds have
\* passed since it, and absent (no tick, no error) otherwise: a Publish
\* replaces the cached tick whole and restarts the 60 seconds.
C21_FreshOrAbsent ==
    [][(got'.n # got.n /\ got'.err = "") =>
        LET last == lastSet[got'.symbol] IN
        got'.tick = IF last # None /\ now - last[1].at < TTL
                    THEN Some(last[1].tick)
                    ELSE None]_storeVars

\* A second Publish has restarted the lifetime of the key, the lifetime has
\* passed again, and GetLastPrice has returned absent.
C21_Witness ==
    \E sym \in Symbols :
        /\ pubs >= 2
        /\ lastSet[sym] # None
        /\ lastSet[sym][1].at > 0
        /\ now >= lastSet[sym][1].at + TTL
        /\ got.n > 0 /\ got.symbol = sym /\ got.err = "" /\ got.tick = None

\* The latest payload broadcast on the symbol's channel, None when there is
\* none.
LastBroadcast(b) == IF b = <<>> THEN None ELSE Some(b[Len(b)])

\* The payload of the latest SET applied, None when there is none.
LastCached(l) == IF l = None THEN None ELSE Some(Marshal(l[1].tick))

\* C22: Publish is atomic to observers: at every moment the latest payload
\* broadcast on a symbol's channel is the payload last written to the
\* symbol's key, and a Publish that returns an error has changed neither.
C22_PublishAtomic ==
    /\ [](\A sym \in Symbols : LastBroadcast(broadcast[sym]) = LastCached(lastSet[sym]))
    /\ [][(pub.pc # "idle" /\ pub'.pc = "idle" /\ pub'.err # "") =>
            /\ broadcast = before.broadcast
            /\ lastSet = before.lastSet]_storeVars

\* ------------------------------------------------------ ingestion client
\* maxBackoff := 60 * time.Second
maxBackoff == 60

\* A message read from the feed: whether it is JSON, and the T of its
\* elements (alpacaMsg.T).
Msg(ok, ts) == [ok |-> ok, T |-> ts]
NoMsg == Msg(FALSE, <<>>)
\* What the feed may answer to the auth frame, and send in the read loop.
AuthResponses == {Msg(TRUE, <<"success">>), Msg(TRUE, <<"error">>), Msg(TRUE, <<>>), NoMsg}
LoopMessages == {Msg(TRUE, <<"t">>), Msg(TRUE, <<"q">>), Msg(TRUE, <<"q", "t">>), NoMsg}

\* What connect does on the connection, as the history keeps it.
Did(op, msg) == [op |-> op, msg |-> msg]

\* case <-ctx.Done() of a select, taken whether the context is cancelled or not.
CtxDoneAlways(done) == TRUE

\* case <-ctx.Done() of a select can be taken when the context is cancelled.
CtxDone(done) == done

\* backoff *= 2 without the cap.
NextBackoffUncapped(b) == 2 * b

\* backoff *= 2; if backoff > maxBackoff { backoff = maxBackoff }
NextBackoff(b) == IF 2 * b > maxBackoff THEN maxBackoff ELSE 2 * b

\* The check of the auth response left out.
AuthSucceededAlways(resp) == TRUE

\* !(len(authMsgs) == 0 || authMsgs[0].T != "success")
AuthSucceeded(resp) == Len(resp.T) > 0 /\ resp.T[1] = "success"

\* A frame of the read loop is a tick when msg.T == "t".
IsTrade(t) == t = "t"

\* The frames of msg that are ticks, in order.
RECURSIVE Trades(_)
Trades(ts) ==
    IF ts = <<>> THEN <<>>
    ELSE (IF IsTrade(Head(ts)) THEN <<Head(ts)>> ELSE <<>>) \o Trades(Tail(ts))

\* connect returns e ("" for nil) to Run: on nil, backoff = time.Second and
\* continue; on an error, Run goes on to wait.
Returns(outcome, e) ==
    /\ lastOutcome' = outcome
    /\ rested' = FALSE
    /\ pure' = (pure /\ e # "" /\ ~session)
    /\ IF e = ""
       THEN /\ backoff' = 1
            /\ prevDelay' = 0
            /\ runPc' = "select"
       ELSE /\ runPc' = "wait"
            /\ UNCHANGED <<backoff, prevDelay>>

\* The context of Run is cancelled.
CancelCtx ==
    /\ ~ctxDone
    /\ runPc # "returned"
    /\ ctxDone' = TRUE
    /\ UNCHANGED <<runPc, backoff, attempts, frames, steps, session, lastOutcome,
                   waited, pure, prevDelay, rested>>
    /\ UNCHANGED <<vars, hubVars, storeVars, connVars, extVars>>

\* Run, the select at the top of the loop: return when the context is
\* cancelled, else call connect.
RunSelect ==
    /\ runPc = "select"
    /\ \/ /\ CtxDone(ctxDone)
          /\ runPc' = "returned"
          /\ UNCHANGED <<attempts, frames, steps, session>>
       \/ /\ ~ctxDone
          /\ attempts < MaxAttempts
          /\ runPc' = "dial"
          /\ attempts' = attempts + 1
          /\ frames' = 0
          /\ steps' = <<>>
          /\ session' = FALSE
    /\ UNCHANGED <<backoff, ctxDone, lastOutcome, waited, pure, prevDelay, rested>>
    /\ UNCHANGED <<vars, hubVars, storeVars, connVars, extVars>>

\* connect: websocket.DefaultDialer.DialContext
DialContext ==
    /\ runPc = "dial"
    /\ \/ /\ Returns("dial error", "dial")
          /\ UNCHANGED steps
       \/ /\ ~ctxDone
          /\ steps' = Append(steps, Did("connect", NoMsg))
          /\ runPc' = "hello"
          /\ UNCHANGED <<backoff, lastOutcome, pure, prevDelay, rested>>
    /\ UNCHANGED <<ctxDone, attempts, frames, session, waited>>
    /\ UNCHANGED <<vars, hubVars, storeVars, connVars, extVars>>

\* connect: the first conn.ReadMessage
ReadHello ==
    /\ runPc = "hello"
    /\ \/ /\ Returns("handshake error", "read")
          /\ UNCHANGED steps
       \/ /\ \E m \in AuthResponses : steps' = Append(steps, Did("read", m))
          /\ runPc' = "auth"
          /\ UNCHANGED <<backoff, lastOutcome, pure, prevDelay, rested>>
    /\ UNCHANGED <<ctxDone, attempts, frames, session, waited>>
    /\ UNCHANGED <<vars, hubVars, storeVars, connVars, extVars>>

\* connect: conn.WriteMessage(authMsg)
WriteAuth ==
    /\ runPc = "auth"
    /\ \/ /\ Returns("handshake error", "write")
          /\ UNCHANGED steps
       \/ /\ steps' = Append(steps, Did("auth", NoMsg))
          /\ runPc' = "authResp"
          /\ UNCHANGED <<backoff, lastOutcome, pure, prevDelay, rested>>
    /\ UNCHANGED <<ctxDone, attempts, frames, session, waited>>
    /\ UNCHANGED <<vars, hubVars, storeVars, connVars, extVars>>

\* connect: read the auth response, unmarshal it, and look for the success
\* marker; without it connect logs and returns nil.
ReadAuthResp ==
    /\ runPc = "authResp"
    /\ \/ /\ Returns("handshake error", "read")
          /\ UNCHANGED steps
       \/ \E m \in AuthResponses :
            /\ steps' = Append(steps, Did("read", m))
            /\ IF ~m.ok THEN Returns("handshake error", "unmarshal")
               ELSE IF ~AuthSucceeded(m) THEN Returns("auth failed", "")
               ELSE /\ runPc' = "subscribe"
                    /\ UNCHANGED <<backoff, lastOutcome, pure, prevDelay, rested>>
    /\ UNCHANGED <<ctxDone, attempts, frames, session, waited>>
    /\ UNCHANGED <<vars, hubVars, storeVars, connVars, extVars>>

\* connect: conn.WriteMessage(subMsg)
WriteSubscribe ==
    /\ runPc = "subscribe"
    /\ \/ /\ Returns("handshake error", "write")
          /\ UNCHANGED steps
       \/ /\ steps' = Append(steps, Did("subscribe", NoMsg))
          /\ runPc' = "ack"
          /\ UNCHANGED <<backoff, lastOutcome, pure, prevDelay, rested>>
    /\ UNCHANGED <<ctxDone, attempts, frames, session, waited>>
    /\ UNCHANGED <<vars, hubVars, storeVars, connVars, extVars>>

\* connect: read the subscribe acknowledgment, whatever it says, and enter
\* the read loop.
ReadSubAck ==
    /\ runPc = "ack"
    /\ \/ /\ Returns("handshake error", "read")
          /\ UNCHANGED <<steps, session>>
       \/ /\ \E m \in AuthResponses : steps' = Append(steps, Did("read", m))
          /\ runPc' = "loop"
          /\ session' = TRUE
          /\ UNCHANGED <<backoff, lastOutcome, pure, prevDelay, rested>>
    /\ UNCHANGED <<ctxDone, attempts, frames, waited>>
    /\ UNCHANGED <<vars, hubVars, storeVars, connVars, extVars>>

\* connect, the select at the top of the read loop: return nil when the
\* context is cancelled.
LoopSelect ==
    /\ runPc = "loop"
    /\ \/ /\ CtxDone(ctxDone)
          /\ Returns("cancelled", "")
       \/ /\ ~ctxDone
          /\ runPc' = "read"
          /\ UNCHANGED <<backoff, lastOutcome, pure, prevDelay, rested>>
    /\ UNCHANGED <<ctxDone, attempts, frames, steps, session, waited>>
    /\ UNCHANGED <<vars, hubVars, storeVars, connVars, extVars>>

\* The Publish calls connect makes for the ticks ts, each of which succeeds
\* or fails (and is logged).
RECURSIVE Publishes(_)
Publishes(ts) ==
    IF ts = <<>> THEN {<<>>}
    ELSE {<<Did(op, NoMsg)>> \o rest :
            op \in {"publish", "publish failed"}, rest \in Publishes(Tail(ts))}

\* connect, the read loop: read a message (90 s deadline); a read error ends
\* connect, a message that is not a JSON array is skipped, and every frame
\* with T == "t" is published.
ReadLoop ==
    /\ runPc = "read"
    /\ \/ /\ Returns("read loop error", "read")
          /\ UNCHANGED <<steps, frames>>
       \/ /\ frames < MaxFrames
          /\ frames' = frames + 1
          /\ \E m \in LoopMessages :
                \E ps \in (IF m.ok THEN Publishes(Trades(m.T)) ELSE {<<>>}) :
                    steps' = Append(steps, Did("read", m)) \o ps
          /\ runPc' = "loop"
          /\ UNCHANGED <<backoff, lastOutcome, pure, prevDelay, rested>>
    /\ UNCHANGED <<ctxDone, attempts, session, waited>>
    /\ UNCHANGED <<vars, hubVars, storeVars, connVars, extVars>>

\* Run after an error of connect: return when the context is cancelled, or
\* wait backoff, then double it up to maxBackoff.
RunWait ==
    /\ runPc = "wait"
    /\ \/ /\ CtxDone(ctxDone)
          /\ runPc' = "returned"
          /\ UNCHANGED <<backoff, waited, prevDelay, rested>>
       \/ /\ runPc' = "select"
          /\ waited' = IF pure THEN Append(waited, backoff) ELSE waited
          /\ prevDelay' = backoff
          /\ rested' = TRUE
          /\ backoff' = NextBackoff(backoff)
    /\ UNCHANGED <<ctxDone, attempts, frames, steps, session, lastOutcome, pure>>
    /\ UNCHANGED <<vars, hubVars, storeVars, connVars, extVars>>

FeedNext ==
    \/ CancelCtx
    \/ RunSelect
    \/ DialContext
    \/ ReadHello
    \/ WriteAuth
    \/ ReadAuthResp
    \/ WriteSubscribe
    \/ ReadSubAck
    \/ LoopSelect
    \/ ReadLoop
    \/ RunWait

FeedSpec == Init /\ [][FeedNext]_feedVars

\* Run is scheduled, and what it waits for with a bound happens: the select
\* statements are taken, the dial ends (DialContext gives up when the context
\* is cancelled), a write ends, the timer of the backoff fires, and a read of
\* the read loop ends at the latest at its 90 s deadline.  The reads of the
\* handshake have no deadline and end when the peer sends or hangs up: the
\* peer is not obliged to.
FeedFairness ==
    /\ WF_feedVars(RunSelect)
    /\ WF_feedVars(DialContext)
    /\ WF_feedVars(WriteAuth)
    /\ WF_feedVars(WriteSubscribe)
    /\ WF_feedVars(LoopSelect)
    /\ WF_feedVars(ReadLoop)
    /\ WF_feedVars(RunWait)

FeedFairSpec == Init /\ [][FeedNext]_feedVars /\ FeedFairness

\* ------------------------------------------------------- feed properties
\* The i-th delay of the sequence 1, 2, 4, 8, 16, 32, 60, 60, ...
Doubled(i) == IF 2 ^ (i - 1) > 60 THEN 60 ELSE 2 ^ (i - 1)

\* Run has just waited: the step in which the timer of time.After fires.
Waits == rested' /\ ~rested

\* C23: while every connection attempt so far has failed before its read
\* loop, the delays Run has waited are 1, 2, 4, 8, 16, 32, 60, 60, ...; every
\* delay Run waits is within [1 s, 60 s], and after an attempt that failed
\* before its read loop it is twice the delay before, up to 60 s.
C23_BackoffSequence ==
    /\ [](\A i \in 1..Len(waited) : waited[i] = Doubled(i))
    /\ [][Waits =>
            /\ prevDelay' >= 1 /\ prevDelay' <= 60
            /\ (prevDelay > 0 /\ ~session) =>
                  prevDelay' = IF 2 * prevDelay > 60 THEN 60 ELSE 2 * prevDelay
         ]_feedVars

\* Eight attempts in a row have failed before the read loop, and Run has
\* waited the eight delays.
C23_Witness == pure /\ waited = <<1, 2, 4, 8, 16, 32, 60, 60>>

\* C24: after a connection attempt that entered the read loop and then
\* ended with an error, Run waits 1 second before the next attempt.
C24_ResetAfterSession ==
    [][(Waits /\ session /\ lastOutcome = "read loop error") => prevDelay' = 1]_feedVars

\* C25: Run returns only when its context is cancelled; after every return
\* of connect with the context not cancelled, Run can go on to wait and to
\* the next attempt.
C25_RunsUntilCancelled ==
    /\ runPc = "returned" => ctxDone
    /\ (~ctxDone /\ runPc = "wait") => ENABLED RunWait
    /\ (~ctxDone /\ runPc = "select" /\ attempts < MaxAttempts) => ENABLED RunSelect

\* After failed attempts a session has ended with a read error, the context
\* is not cancelled, and Run has started the next attempt.
C25_Witness ==
    /\ ~ctxDone
    /\ attempts >= 3
    /\ runPc = "dial"
    /\ lastOutcome = "read loop error"
    /\ ~pure

\* C29: Run starts an attempt after another one only after it has waited a
\* delay of at least 1 second since that one ended.
C29_NoImmediateReconnect ==
    [][(runPc = "select" /\ runPc' = "dial" /\ attempts > 0)
        => rested /\ prevDelay >= 1]_feedVars

\* The order of a connection attempt up to its read loop.
Handshake == <<"connect", "read", "auth", "read", "subscribe", "read">>

\* How many Publish calls directly follow item j of the history.
RECURSIVE PublishesAfter(_, _)
PublishesAfter(h, j) ==
    IF j < Len(h) /\ h[j + 1].op \in {"publish", "publish failed"}
    THEN 1 + PublishesAfter(h, j + 1)
    ELSE 0

\* C30: an attempt connects, reads, sends auth, reads the auth response,
\* sends subscribe, reads the acknowledgment, and then only reads and
\* publishes; subscribe is sent only after an auth response whose first
\* element has T = "success"; Publish is called only in the read loop, once
\* for every frame with T = "t" of the message just read and for no other.
C30_ConnectOrder ==
    /\ \A i \in 1..Len(steps) :
        /\ i <= Len(Handshake) => steps[i].op = Handshake[i]
        /\ i > Len(Handshake) => steps[i].op \in {"read", "publish", "publish failed"}
        /\ steps[i].op \in {"publish", "publish failed"} => i > Len(Handshake) + 1
    /\ Len(steps) >= 5 =>
        LET resp == steps[4].msg IN
        resp.ok /\ Len(resp.T) > 0 /\ resp.T[1] = "success"
    /\ \A j \in 1..Len(steps) :
        steps[j].op = "read" =>
            PublishesAfter(steps, j) =
                IF j > Len(Handshake) /\ steps[j].msg.ok
                THEN Cardinality({i \in 1..Len(steps[j].msg.T) : steps[j].msg.T[i] = "t"})
                ELSE 0

\* The read loop has read a message with a quote and a trade and has called
\* Publish once for it.
C30_Witness ==
    \E j \in 1..Len(steps) :
        /\ j > Len(Handshake)
        /\ steps[j].op = "read"
        /\ steps[j].msg = Msg(TRUE, <<"q", "t">>)
        /\ PublishesAfter(steps, j) = 1

\* --------------------------------------------------- connection pumps
\* The pumps of a connection step by step, with the command channels of the
\* hub at their capacity: a send to a full channel waits.
\* ServeWS: hub.register <- client needs room in the channel.
Upgrade(c) ==
    /\ Len(register) < HubCap
    /\ ServeWS(c)

\* ServeWS: go client.writePump(); go client.readPump()
StartPumps(c) ==
    /\ Alive
    /\ conn[c] = "open"
    /\ readPc[c].at = "none"
    /\ readPc' = [readPc EXCEPT ![c] = ReadAt("read", "", "")]
    /\ writePc' = [writePc EXCEPT ![c] = "select"]
    /\ UNCHANGED hubVars
    /\ UNCHANGED <<vars, storeVars, feedVars, extVars>>

\* The commands the read pumps hold and have not sent yet.
Held2Send == Cardinality({c \in Clients : readPc[c].at = "forward"})

\* readPump: conn.ReadMessage returns a message {action, symbols: [sym]}.
ReadPumpMessage(c, action, sym) ==
    /\ Alive
    /\ readPc[c].at = "read"
    /\ conn[c] = "open"
    /\ MsgsRead + Held2Send < MaxMsgs
    /\ readPc' = [readPc EXCEPT ![c] = ReadAt("forward", action, sym)]
    /\ UNCHANGED writePc
    /\ UNCHANGED hubVars
    /\ UNCHANGED <<vars, storeVars, feedVars, extVars>>

\* readPump: c.hub.subscribe <- ... or c.hub.unsubscribe <- ..., which waits
\* while the channel is full.
ReadPumpForward(c) ==
    /\ Alive
    /\ readPc[c].at = "forward"
    /\ LET cmd == [client |-> c, symbol |-> readPc[c].symbol] IN
       IF readPc[c].action = "subscribe"
       THEN /\ Len(subscribe) < HubCap
            /\ subscribe' = Append(subscribe, cmd)
            /\ UNCHANGED unsubscribe
       ELSE /\ Len(unsubscribe) < HubCap
            /\ unsubscribe' = Append(unsubscribe, cmd)
            /\ UNCHANGED subscribe
    /\ sent' = [sent EXCEPT ![c] = Append(@, <<readPc[c].action, readPc[c].symbol>>)]
    /\ readPc' = [readPc EXCEPT ![c] = ReadAt("read", "", "")]
    /\ UNCHANGED writePc
    /\ UNCHANGED <<clients, subs, redisCancels, register, unregister, hubDone, send,
                   closed, conn, pumps, started, published, panicked, owed>>
    /\ UNCHANGED <<vars, storeVars, feedVars, extVars>>

\* readPump: conn.ReadMessage fails on an open connection (the peer is gone,
\* or the read deadline has passed) and the loop is left.
ReadPumpError(c) ==
    /\ Alive
    /\ readPc[c].at = "read"
    /\ conn[c] = "open"
    /\ readPc' = [readPc EXCEPT ![c] = ReadAt("defer", "", "")]
    /\ UNCHANGED writePc
    /\ UNCHANGED hubVars
    /\ UNCHANGED <<vars, storeVars, feedVars, extVars>>

\* readPump: conn.ReadMessage fails because writePump has closed the
\* connection.
ReadPumpClosed(c) ==
    /\ Alive
    /\ readPc[c].at = "read"
    /\ conn[c] = "closed"
    /\ readPc' = [readPc EXCEPT ![c] = ReadAt("defer", "", "")]
    /\ UNCHANGED writePc
    /\ UNCHANGED hubVars
    /\ UNCHANGED <<vars, storeVars, feedVars, extVars>>

\* readPump, the deferred function: c.hub.unregister <- c, which waits while
\* the channel is full, then c.conn.Close(), and readPump has returned.
ReadPumpDefer(c) ==
    /\ Alive
    /\ readPc[c].at = "defer"
    /\ Len(unregister) < HubCap
    /\ unregister' = Append(unregister, c)
    /\ sent' = [sent EXCEPT ![c] = Append(@, <<"unregister", "">>)]
    /\ conn' = [conn EXCEPT ![c] = "closed"]
    /\ readPc' = [readPc EXCEPT ![c] = ReadAt("exited", "", "")]
    /\ UNCHANGED writePc
    /\ UNCHANGED <<clients, subs, redisCancels, register, subscribe, unsubscribe,
                   hubDone, send, closed, pumps, started, published, panicked, owed>>
    /\ UNCHANGED <<vars, storeVars, feedVars, extVars>>

\* writePump: conn.WriteMessage of a tick or of the 30 s ping fails (the
\* connection is closed, the peer is gone, the write deadline has passed);
\* writePump returns and its deferred function closes the connection.
WritePumpError(c) ==
    /\ Alive
    /\ writePc[c] = "select"
    /\ writePc' = [writePc EXCEPT ![c] = "exited"]
    /\ conn' = [conn EXCEPT ![c] = "closed"]
    /\ UNCHANGED readPc
    /\ UNCHANGED <<clients, subs, redisCancels, register, unregister, subscribe,
                   unsubscribe, hubDone, send, closed, pumps, started, published,
                   panicked, sent, owed>>
    /\ UNCHANGED <<vars, storeVars, feedVars, extVars>>

\* writePump: c.send is closed and drained; the close message is written and
\* writePump returns, closing the connection.
WritePumpClosed(c) ==
    /\ Alive
    /\ writePc[c] = "select"
    /\ c \in closed
    /\ send[c] = <<>>
    /\ writePc' = [writePc EXCEPT ![c] = "exited"]
    /\ conn' = [conn EXCEPT ![c] = "closed"]
    /\ UNCHANGED readPc
    /\ UNCHANGED <<clients, subs, redisCancels, register, unregister, subscribe,
                   unsubscribe, hubDone, send, closed, pumps, started, published,
                   panicked, sent, owed>>
    /\ UNCHANGED <<vars, storeVars, feedVars, extVars>>

ConnNext ==
    \/ \E c \in Clients : Upgrade(c)
    \/ \E c \in Clients : StartPumps(c)
    \/ \E c \in Clients, action \in {"subscribe", "unsubscribe"}, sym \in Streams :
            ReadPumpMessage(c, action, sym)
    \/ \E c \in Clients : ReadPumpForward(c)
    \/ \E c \in Clients : ReadPumpError(c)
    \/ \E c \in Clients : ReadPumpClosed(c)
    \/ \E c \in Clients : ReadPumpDefer(c)
    \/ \E c \in Clients : WritePumpError(c)
    \/ \E c \in Clients : WritePumpClosed(c)
    \/ Register
    \/ Unregister
    \/ Subscribe
    \/ Unsubscribe
    \/ RunDone

connAll == <<hubVars, connVars>>

\* The goroutines are scheduled: a pump that can take its next step takes
\* it, a write on a closed connection fails (at the latest at the next
\* ping), and the hub loop takes a command that waits in a channel.
ConnFairness ==
    /\ \A c \in Clients :
        /\ WF_connAll(ReadPumpForward(c))
        /\ WF_connAll(ReadPumpClosed(c))
        /\ WF_connAll(ReadPumpDefer(c))
        /\ WF_connAll(conn[c] = "closed" /\ WritePumpError(c))
        /\ WF_connAll(WritePumpClosed(c))
    /\ WF_connAll(Register)
    /\ WF_connAll(Unregister)
    /\ WF_connAll(Subscribe)
    /\ WF_connAll(Unsubscribe)

ConnSpec == Init /\ [][ConnNext]_connAll /\ ConnFairness

\* --------------------------------------------------- pump properties
\* One of the pumps of client c has returned.
OneExited(c) == readPc[c].at = "exited" \/ writePc[c] = "exited"

\* Both pumps of client c have returned and its connection is closed.
BothExited(c) ==
    /\ readPc[c].at = "exited"
    /\ writePc[c] = "exited"
    /\ conn[c] = "closed"

\* C26: for every connection, when one of its pumps has returned, the other
\* returns too in the end and the connection is closed, whether the hub loop
\* is running or has stopped.
C26_PumpsEndTogether == \A c \in Clients : OneExited(c) ~> BothExited(c)

\* C26 while the hub loop goes on running: when one pump has returned, the
\* other returns too, or the hub loop has stopped.
C26_WhileHubRuns == \A c \in Clients : OneExited(c) ~> (BothExited(c) \/ hubDone)

\* ------------------------------------------------- grading scale detection
\* Everything but the grading scales.
notScaleVars == <<vars, hubVars, storeVars, feedVars, connVars, cacheVars>>

\* GradingScaleDetector.SOURCES and GradingScaleDetector.CONFIDENCE.
SOURCES ==
    [MANUAL_OVERRIDE |-> "manual_override", CANVAS_API |-> "canvas_api",
     SYLLABUS_PARSED |-> "syllabus_parsed", DEFAULT_FALLBACK |-> "default_fallback"]
CONFIDENCE ==
    [MANUAL_OVERRIDE |-> 100, CANVAS_API |-> 95, SYLLABUS_PARSED |-> 85,
     DEFAULT_FALLBACK |-> 50]

\* The scales a user saves, the notes saved with them, and what
\* canvasApi.getActiveGradingStandard answers: no standard, a standard
\* without a scheme, or a standard with its scheme.
UserScales == {"user_scale_1", "user_scale_2"}
UserNotes == {"", "from the syllabus"}
GradingStandard(scheme) == [grading_scheme |-> scheme]
GradingStandards == {None, Some(GradingStandard(None)), Some(GradingStandard(Some("canvas_scheme")))}

\* The entry setCustomGradingScale stores for a course.
CustomScale(scale, userNotes) == [scale |-> scale, userNotes |-> userNotes]

\* Storage.getCustomGradingScale: customGradingScales?.[courseId] || null.
GetCustomGradingScale(scales, courseId) == scales[courseId]

\* convertCanvasScheme: the scheme of Canvas in the extension's format.
ConvertCanvasScheme(scheme) == "converted_" \o scheme

\* detectFromCanvasAPI: null without a standard or without its scheme, else
\* the converted scheme with source canvas_api.
DetectFromCanvasAPI(standard) ==
    IF standard = None \/ standard[1].grading_scheme = None
    THEN None
    ELSE Some(ScaleInfo(ConvertCanvasScheme(standard[1].grading_scheme[1]),
                        SOURCES.CANVAS_API, CONFIDENCE.CANVAS_API, ""))

\* Step 3 of getGradingScale: the default scale.
DefaultFallback ==
    ScaleInfo("DEFAULT_SCALE_PLUS_MINUS", SOURCES.DEFAULT_FALLBACK,
              CONFIDENCE.DEFAULT_FALLBACK, "")

\* Step 1 of getGradingScale: with storage given and a custom scale found,
\* the call returns it and goes no further.
UsesOverrideUnlessCanvas(options, customScale) ==
    /\ options.storage
    /\ customScale # None
    /\ ~(options.canvasApi /\ ~options.forceRefresh)
UsesOverride(options, customScale) == options.storage /\ customScale # None

\* The result of step 1.
ManualOverride(customScale) ==
    ScaleInfo(customScale.scale, SOURCES.MANUAL_OVERRIDE, CONFIDENCE.MANUAL_OVERRIDE,
              customScale.userNotes)

\* Step 2 of getGradingScale is taken: canvasApi given and no forceRefresh.
AsksCanvas(options) == options.canvasApi /\ ~options.forceRefresh

\* Storage.setCustomGradingScale (the popup and the scale editor save a
\* scale): the entry of the course is replaced.
SetCustomGradingScale(courseId, scale, userNotes) ==
    /\ customGradingScales' =
            [customGradingScales EXCEPT ![courseId] = Some(CustomScale(scale, userNotes))]
    /\ customGradingScales' # customGradingScales
    /\ UNCHANGED <<scaleCall, scaleResult, storedAtRead, activeGradingStandard>>
    /\ UNCHANGED notScaleVars

\* Storage.removeCustomGradingScale: the entry of the course, when there is
\* one, is deleted.
RemoveCustomGradingScale(courseId) ==
    /\ customGradingScales[courseId] # None
    /\ customGradingScales' = [customGradingScales EXCEPT ![courseId] = None]
    /\ UNCHANGED <<scaleCall, scaleResult, storedAtRead, activeGradingStandard>>
    /\ UNCHANGED notScaleVars

\* getGradingScale(courseId, options), up to its first await of the Canvas
\* API: the custom scale is read from storage; the read rejects
\* (chrome.runtime.lastError) and so does the call, or the override is
\* returned, or Canvas is asked, or the default is returned.
GetGradingScale(courseId, options) ==
    /\ scaleCall.at = "idle"
    /\ scaleResult.n < MaxScaleCalls
    /\ \/ /\ options.storage
          /\ scaleResult' = ScaleEnd(scaleResult.n + 1, courseId, options, FALSE, NoScaleInfo)
          /\ UNCHANGED <<scaleCall, storedAtRead>>
       \/ LET customScale == IF options.storage
                             THEN GetCustomGradingScale(customGradingScales, courseId)
                             ELSE None
          IN  /\ storedAtRead' = customGradingScales[courseId]
              /\ IF UsesOverride(options, customScale)
                 THEN /\ scaleResult' = ScaleEnd(scaleResult.n + 1, courseId, options, TRUE,
                                                 ManualOverride(customScale[1]))
                      /\ UNCHANGED scaleCall
                 ELSE IF AsksCanvas(options)
                 THEN /\ scaleCall' = ScaleAt("canvas", courseId, options)
                      /\ UNCHANGED scaleResult
                 ELSE /\ scaleResult' = ScaleEnd(scaleResult.n + 1, courseId, options, TRUE,
                                                 DefaultFallback)
                      /\ UNCHANGED scaleCall
    /\ UNCHANGED <<customGradingScales, activeGradingStandard>>
    /\ UNCHANGED notScaleVars

\* getGradingScale after detectFromCanvasAPI: Canvas answered with a scheme
\* and it is returned, or it answered without one, or the request threw
\* (the error is caught), and the default is returned.
GetGradingScaleCanvas(standard, threw) ==
    /\ scaleCall.at = "canvas"
    /\ standard = activeGradingStandard[scaleCall.courseId]
    /\ LET canvasScale == IF threw THEN None ELSE DetectFromCanvasAPI(standard)
           result == IF canvasScale # None THEN canvasScale[1] ELSE DefaultFallback
       IN  scaleResult' = ScaleEnd(scaleResult.n + 1, scaleCall.courseId,
                                   scaleCall.options, TRUE, result)
    /\ scaleCall' = ScaleAt("idle", "", NoOptions)
    /\ UNCHANGED <<customGradingScales, storedAtRead, activeGradingStandard>>
    /\ UNCHANGED notScaleVars

\* The grading standard of a course is changed in Canvas: from then on
\* CanvasAPI.getActiveGradingStandard answers with the new one.
SetActiveGradingStandard(courseId, standard) ==
    /\ activeGradingStandard[courseId] # standard
    /\ activeGradingStandard' = [activeGradingStandard EXCEPT ![courseId] = standard]
    /\ UNCHANGED <<customGradingScales, scaleCall, scaleResult, storedAtRead>>
    /\ UNCHANGED notScaleVars

ScaleNext ==
    \/ \E c \in CourseIds, scale \in UserScales, notes \in UserNotes :
            SetCustomGradingScale(c, scale, notes)
    \/ \E c \in CourseIds : RemoveCustomGradingScale(c)
    \/ \E c \in CourseIds, options \in ScaleOptions : GetGradingScale(c, options)
    \/ \E standard \in GradingStandards, threw \in BOOLEAN :
            GetGradingScaleCanvas(standard, threw)
    \/ \E c \in CourseIds, standard \in GradingStandards :
            SetActiveGradingStandard(c, standard)

ScaleSpec == Init /\ [][ScaleNext]_scaleVars

\* ------------------------------------------- grading scale properties
\* C27: whenever getGradingScale returns for a course that had a custom
\* grading scale stored when the call read storage, it returns that scale
\* with source manual_override and confidence 100, whether canvasApi is
\* given or not, whatever Canvas would answer and whatever forceRefresh is.
C27_ManualOverrideFirst ==
    [][(/\ scaleResult'.n # scaleResult.n
        /\ scaleResult'.returned
        /\ storedAtRead' # None)
       => /\ scaleResult'.result.source = "manual_override"
          /\ scaleResult'.result.confidence = 100
          /\ scaleResult'.result.scale = storedAtRead'[1].scale
          /\ scaleResult'.result.userNotes = storedAtRead'[1].userNotes]_scaleVars

\* A call with canvasApi given and forceRefresh unset, which would have asked
\* Canvas, has returned the manual override of a course with a custom scale.
C27_Witness ==
    /\ scaleResult.returned
    /\ scaleResult.options.canvasApi
    /\ ~scaleResult.options.forceRefresh
    /\ storedAtRead # None
    /\ scaleResult.result = ManualOverride(storedAtRead[1])
    /\ customGradingScales[scaleResult.courseId] = storedAtRead

\* --------------------------------------------------------- course cache
\* Everything but the course cache.
notCacheVars == <<vars, hubVars, storeVars, feedVars, connVars, scaleVars>>

\* The ages the caches are checked against, in milliseconds: 1 hour for the
\* courses (getCachedCourses), 30 minutes for the assignment groups of a
\* course (getAssignmentGroups).
CoursesMaxAge == 60 * 60 * 1000
GroupsMaxAge == 30 * 60 * 1000

\* The time that passes between two steps: exactly 1 hour, or 1 ms more.
Ages == {CoursesMaxAge, CoursesMaxAge + 1}

\* JSON.stringify and JSON.parse of a course list.
Stringify(courses) == <<"json", courses>>
Parse(text) == text[2]

\* TokenEncryption.encrypt and TokenEncryption.decrypt (AES-GCM under the
\* key of the extension): decrypt gives back what encrypt was given.
Encrypt(plaintext) == <<"aes-gcm", plaintext>>
Decrypt(encrypted) == encrypted[2]

\* What getCachedCourses returns from the value it read at time t: null
\* without encrypted courses or without their timestamp, null when they are
\* older than 1 hour, null when decrypting fails, else the parsed courses.
CachedCourses(value, t, decrypts) ==
    IF value.coursesEncrypted = None \/ value.coursesTimestamp = 0 THEN None
    ELSE IF t - value.coursesTimestamp > CoursesMaxAge THEN None
    ELSE IF ~decrypts THEN None
    ELSE Some(Parse(Decrypt(value.coursesEncrypted[1])))

\* getAssignmentGroups answers from the cache: the groups of the course are
\* there and younger than 30 minutes.
GroupsFresh(value, courseId, t) ==
    /\ value.groupsTimestamp[courseId] # 0
    /\ t - value.groupsTimestamp[courseId] < GroupsMaxAge

\* Time passes.
TimePasses(d) ==
    /\ dateNow + d <= 1 + MaxHours * (CoursesMaxAge + 1)
    /\ dateNow' = dateNow + d
    /\ UNCHANGED <<cache, setCall, groupsCall, served, stored, cleared>>
    /\ UNCHANGED notCacheVars

\* Storage.setCachedCourses(courses), its first await: the key cache is read.
SetCachedCoursesGet(courses) ==
    /\ setCall.at = "idle"
    /\ setCall' = CacheAt("encrypt", courses, cache)
    /\ UNCHANGED <<dateNow, cache, groupsCall, served, stored, cleared>>
    /\ UNCHANGED notCacheVars

\* Storage.setCachedCourses, the rest: the courses are encrypted and written
\* over the value read, with the time of the write; or encrypting or writing
\* throws, the error is logged and nothing is stored.
SetCachedCoursesSet ==
    /\ setCall.at = "encrypt"
    /\ \/ /\ cache' = [setCall.cache EXCEPT
                         !.coursesEncrypted = Some(Encrypt(Stringify(setCall.arg))),
                         !.courses = None,
                         !.coursesTimestamp = dateNow]
          /\ stored' = Some([courses |-> setCall.arg, at |-> dateNow])
          /\ cleared' = FALSE
       \/ UNCHANGED <<cache, stored, cleared>>
    /\ setCall' = CacheAt("idle", <<>>, NoCache)
    /\ UNCHANGED <<dateNow, groupsCall, served>>
    /\ UNCHANGED notCacheVars

\* Storage.getCachedCourses.
GetCachedCourses ==
    /\ served.n < MaxCacheReads
    /\ \E decrypts \in BOOLEAN :
            served' = [n |-> served.n + 1, courses |-> CachedCourses(cache, dateNow, decrypts)]
    /\ UNCHANGED <<dateNow, cache, setCall, groupsCall, stored, cleared>>
    /\ UNCHANGED notCacheVars

\* Storage.clearCache (the manual refresh and the clear-cache button of the
\* popup): the key cache is written without courses, timestamps or groups.
ClearCache ==
    /\ cache' = CacheValue(None, None, 0, NoGroups)
    /\ cleared' = TRUE
    /\ UNCHANGED <<dateNow, setCall, groupsCall, served, stored>>
    /\ UNCHANGED notCacheVars

\* refreshGradesInBackground (REFRESH_DATA and the periodic alarm): the
\* courses fetched are written in the clear with the time of the write; the
\* value written holds neither encrypted courses nor groups.
RefreshGradesInBackground(courses) ==
    /\ cache' = CacheValue(None, Some(courses), dateNow, NoGroups)
    /\ UNCHANGED <<dateNow, setCall, groupsCall, served, stored, cleared>>
    /\ UNCHANGED notCacheVars

\* getAssignmentGroups(courseId) of the background worker
\* (GET_ASSIGNMENT_GROUPS, sent by the popup for every course), up to its
\* fetch: the key cache is read and the groups are not fresh in it.
GetAssignmentGroups(courseId) ==
    /\ groupsCall.at = "idle"
    /\ ~GroupsFresh(cache, courseId, dateNow)
    /\ groupsCall' = CacheAt("fetch", courseId, cache)
    /\ UNCHANGED <<dateNow, cache, setCall, served, stored, cleared>>
    /\ UNCHANGED notCacheVars

\* getAssignmentGroups after its fetches: the value read before them is
\* written back with the groups of the course and their time; or a fetch
\* fails and the call throws.
GetAssignmentGroupsSet ==
    /\ groupsCall.at = "fetch"
    /\ \/ cache' = [groupsCall.cache EXCEPT !.groupsTimestamp[groupsCall.arg] = dateNow]
       \/ UNCHANGED cache
    /\ groupsCall' = CacheAt("idle", "", NoCache)
    /\ UNCHANGED <<dateNow, setCall, served, stored, cleared>>
    /\ UNCHANGED notCacheVars

CacheNext ==
    \/ \E d \in Ages : TimePasses(d)
    \/ \E courses \in CourseLists : SetCachedCoursesGet(courses)
    \/ SetCachedCoursesSet
    \/ GetCachedCourses
    \/ ClearCache
    \/ \E courses \in CourseLists : RefreshGradesInBackground(courses)
    \/ \E c \in CourseIds : GetAssignmentGroups(c)
    \/ GetAssignmentGroupsSet

CacheSpec == Init /\ [][CacheNext]_cacheVars

\* ------------------------------------------------ course cache properties
\* C28: whenever getCachedCourses returns courses, they are the courses
\* setCachedCourses stored last, at most 1 hour has passed since that store,
\* and clearCache has not run since; in every other case it returns null.
C28_NeverStaleOrCleared ==
    [][(served'.n # served.n /\ served'.courses # None)
       => /\ stored # None
          /\ served'.courses = Some(stored[1].courses)
          /\ dateNow - stored[1].at <= CoursesMaxAge
          /\ ~cleared]_cacheVars

\* ------------------------------------------------- cancellation of the feed
\* C31: once the context of Run is cancelled, Run returns in the end,
\* wherever it stands: waiting in backoff, dialing, in a read of the
\* handshake or in the read loop.
C31_CancelEndsRun == ctxDone ~> (runPc = "returned")

\* C31 for a peer that answers: once the context is cancelled, Run returns
\* or stands in a read of the handshake.
C31_UnlessInHandshakeRead ==
    ctxDone ~> (runPc \in {"returned", "hello", "authResp", "ack"})

\* ----------------------------------------------- the hub and its bridges
\* C32, its second half: after the hub loop has exited on the cancellation
\* of its context, no bridge puts a further tick on the channel of any
\* client.
C32_NoTickAfterHubExit ==
    [][hubDone => \A c \in Clients : Len(send'[c]) <= Len(send[c])]_hubVars

\* C33: no bridge reads or iterates a subscriber set while the hub loop
\* writes to it: whenever a handler of the hub loop adds a client to the set
\* of a symbol, removes one from it or deletes it, no bridge is inside
\* fanOut's range over that set.
C33_SetsOwnedByLoop ==
    [][\A sym \in DOMAIN subs :
        (sym \notin DOMAIN subs' \/ subs'[sym] # subs[sym])
            => ~Ranging(subs[sym].id)]_hubVars

\* C34: no tick is sent on the channel of a client after unregister has
\* closed it: no bridge ever stands at the send of fanOut, which waits for
\* nothing, with a client whose channel is closed.
C34_NoSendOnClosed ==
    Alive => \A b \in DOMAIN pumps :
                pumps[b].pc = "send" => pumps[b].client \notin closed

\* C35: after every command the hub has processed, every client in the
\* subscriber set of any symbol is in the client set of the hub and its
\* channel is open.
C35_SubscribersRegistered ==
    \A sym \in DOMAIN subs :
        /\ subs[sym].set \subseteq clients
        /\ subs[sym].set \cap closed = {}

\* C36: the channel of a client is closed at most once: the hub closes it
\* only when it processes an unregister for a client that is in the client
\* set, whose channel is then still open, and an unregister for a client
\* that is not in the client set changes nothing in the hub and closes
\* nothing.
C36_ClosedAtMostOnce ==
    /\ [](clients \cap closed = {})
    /\ [][(unregister # <<>> /\ unregister' = Tail(unregister))
            => LET c == Head(unregister) IN
               IF c \in clients
               THEN c \notin closed /\ closed' = closed \cup {c}
               ELSE UNCHANGED <<clients, subs, redisCancels, closed, pumps, send>>
         ]_hubVars

\* The unregister of a client was processed before its register, when the
\* client was not in the client set: the client is registered now, its
\* connection is gone, and its channel has not been closed.
C36_Witness ==
    \E c \in Clients :
        /\ conn[c] = "closed"
        /\ c \in clients /\ c \notin closed
        /\ register = <<>> /\ unregister = <<>>
        /\ Alive

\* ------------------------------------------------ the end of a read pump
\* C37: no send of a read pump to the hub waits for ever: no read pump
\* stands at its send of a subscribe or unsubscribe command, or in its
\* deferred function at the send of unregister before conn.Close(), with
\* the channel full and the hub loop gone, when nobody will receive again.
C37_SendsNeverStuck ==
    \A c \in Clients :
        (Alive /\ hubDone) =>
            /\ ~(readPc[c].at = "defer" /\ Len(unregister) >= HubCap)
            /\ ~(/\ readPc[c].at = "forward"
                 /\ readPc[c].action = "subscribe"
                 /\ Len(subscribe) >= HubCap)
            /\ ~(/\ readPc[c].at = "forward"
                 /\ readPc[c].action = "unsubscribe"
                 /\ Len(unsubscribe) >= HubCap)

EntriesOf(i) == {e \in DOMAIN db.ledger : db.ledger[e].order_id = i}

\* Committed ledger entries a and b of portfolio p with no entry of p
\* between them.
Consecutive(p, a, b) ==
    /\ a < b
    /\ db.ledger[a].portfolio_id = p /\ db.ledger[b].portfolio_id = p
    /\ \A e \in DOMAIN db.ledger : (a < e /\ e < b) => db.ledger[e].portfolio_id # p

\* Every committed filled order has exactly one ledger entry, of its
\* portfolio and of type trade_buy for a buy and trade_sell for a sell; a
\* rejected order has none; and every ledger entry is the entry of a filled
\* order.
OneEntryPerFill ==
    /\ \A i \in DOMAIN db.orders :
          IF db.orders[i].status = StatusFilled
          THEN /\ Cardinality(EntriesOf(i)) = 1
               /\ \A e \in EntriesOf(i) :
                     /\ db.ledger[e].portfolio_id = db.orders[i].portfolio_id
                     /\ db.ledger[e].entry_type =
                            IF db.orders[i].side = SideBuy THEN EntryTradeBuy
                                                           ELSE EntryTradeSell
          ELSE EntriesOf(i) = {}
    /\ \A e \in DOMAIN db.ledger :
          /\ db.ledger[e].order_id \in DOMAIN db.orders
          /\ db.orders[db.ledger[e].order_id].status = StatusFilled

\* C39: in every committed state the ledger entries and the filled orders
\* correspond one to one (one entry for each filled order, none for a
\* rejected one), an entry has type trade_buy for a buy and trade_sell for
\* a sell, and of two consecutive entries of one portfolio the later one's
\* balance_after is the earlier one's balance_after plus the later one's
\* amount.
C39_LedgerFollowsFills ==
    /\ OneEntryPerFill
    /\ \A p \in Portfolios : \A a, b \in DOMAIN db.ledger :
          Consecutive(p, a, b) =>
              db.ledger[b].balance_after = db.ledger[a].balance_after + db.ledger[b].amount

\* C39, its first half alone: the one-to-one correspondence and the entry
\* types.
C39_OneEntryPerFill == OneEntryPerFill

\* ------------------------------------------ the Canvas scale and the default
\* Canvas holds a grading standard with a grading scheme for the course.
HasCanvasScheme(courseId) ==
    /\ activeGradingStandard[courseId] # None
    /\ activeGradingStandard[courseId][1].grading_scheme # None

\* This step is a return of getGradingScale.
ScaleReturns == scaleResult'.n # scaleResult.n /\ scaleResult'.returned

\* A return with no manual override stored at the read, after Canvas has
\* answered with a standard that has a scheme, returns the scale of Canvas
\* with source canvas_api and confidence 95.
CanvasScaleReturned ==
    \A standard \in GradingStandards :
        (/\ GetGradingScaleCanvas(standard, FALSE)
         /\ storedAtRead' = None
         /\ HasCanvasScheme(scaleResult'.courseId))
        => /\ scaleResult'.result.source = "canvas_api"
           /\ scaleResult'.result.confidence = 95
           /\ scaleResult'.result.scale =
                  ConvertCanvasScheme(standard[1].grading_scheme[1])

\* The default (confidence 50) is returned by this step only with no manual
\* override stored at the read and with no scale to be had from Canvas: no
\* canvasApi was given, Canvas holds no standard with a scheme for the
\* course, or the request made to Canvas failed.
DefaultOnlyWithoutBoth ==
    (ScaleReturns /\ scaleResult'.result.source = "default_fallback")
    => /\ scaleResult'.result.confidence = 50
       /\ storedAtRead' = None
       /\ \/ ~scaleResult'.options.canvasApi
          \/ ~HasCanvasScheme(scaleResult'.courseId)
          \/ scaleCall.at = "canvas"

C40_UnlessForceRefresh ==
    [][/\ CanvasScaleReturned
       /\ ~scaleResult'.options.forceRefresh => DefaultOnlyWithoutBoth]_scaleVars

====
